---------------------------- MODULE Spec2Model ----------------------------
(***************************************************************************)
(* A model of the news aggregator's core: the URL fingerprint (hash.ts),   *)
(* the rule classifier and the classification cascade (tagger.ts, ai.ts),  *)
(* the ingestion orchestrator (fetcher.ts), the digest synthesizer and     *)
(* the batch digest coordinator (digest.ts), over a store with the unique  *)
(* indexes of db/schema.ts.                                                *)
(*                                                                         *)
(* Text is a sequence of one-character strings, so that toLowerCase and    *)
(* String.includes are computed, not assumed.  A confidence c of the code  *)
(* (a number in [0,1]) is the integer 300 * c, which is exact for n/3 and  *)
(* for 0.33.                                                               *)
(***************************************************************************)
EXTENDS Integers, Sequences, FiniteSets, TLC

\* ------------------------------------------------------------------ bounds
\* Longest feed response (number of items) of a run, when runs follow each other.
MaxFeed == 2
\* Longest feed response of a run, when runs are concurrent.
MaxRaceFeed == 1
\* Number of store or collaborator faults injected in one behaviour.
MaxFaults == 1
\* Number of generateDailyDigest calls in one behaviour, when calls follow
\* each other.
MaxCalls == 3
\* Number of generateDailyDigest calls in one behaviour, when calls are
\* concurrent.
MaxRaceCalls == 2
\* Number of generateAllDailyDigests calls in one behaviour.
MaxBatches == 2
\* Number of stored articles a client pages through.
MaxStored == 3
\* Greatest limit of an article.browse request.
MaxLimit == 2

\* ------------------------------------------------------------- basic text
Null == "null"

Min(a, b) == IF a <= b THEN a ELSE b

\* String.prototype.toLowerCase on one character.
LowerChar(c) ==
  CASE c = "A" -> "a" [] c = "B" -> "b" [] c = "C" -> "c" [] c = "D" -> "d"
    [] c = "E" -> "e" [] c = "F" -> "f" [] c = "G" -> "g" [] c = "H" -> "h"
    [] c = "I" -> "i" [] c = "J" -> "j" [] c = "K" -> "k" [] c = "L" -> "l"
    [] c = "M" -> "m" [] c = "N" -> "n" [] c = "O" -> "o" [] c = "P" -> "p"
    [] c = "Q" -> "q" [] c = "R" -> "r" [] c = "S" -> "s" [] c = "T" -> "t"
    [] c = "U" -> "u" [] c = "V" -> "v" [] c = "W" -> "w" [] c = "X" -> "x"
    [] c = "Y" -> "y" [] c = "Z" -> "z" [] OTHER -> c

\* String.prototype.toLowerCase.
ToLowerCase(s) == [i \in 1..Len(s) |-> LowerChar(s[i])]

\* String.prototype.includes: kw occurs as a substring of text.
Includes(text, kw) ==
  \E i \in 0..(Len(text) - Len(kw)) : \A j \in 1..Len(kw) : text[i + j] = kw[j]

\* ---------------------------------------------------------------- taxonomy
\* TOPICS, in the order of the object literal (Object.values / Object.keys).
TOPICS ==
  << [slug |-> "ai-ml",         name |-> "AI & Machine Learning",   sortOrder |-> 1],
     [slug |-> "startups",      name |-> "Startups & Funding",      sortOrder |-> 2],
     [slug |-> "programming",   name |-> "Programming & Dev Tools", sortOrder |-> 3],
     [slug |-> "cybersecurity", name |-> "Cybersecurity",           sortOrder |-> 4],
     [slug |-> "big-tech",      name |-> "Big Tech",                sortOrder |-> 5],
     [slug |-> "crypto",        name |-> "Crypto & Web3",           sortOrder |-> 6],
     [slug |-> "hardware",      name |-> "Hardware & Gadgets",      sortOrder |-> 7],
     [slug |-> "science",       name |-> "Science & Space",         sortOrder |-> 8] >>

TopicSlugs == {TOPICS[i].slug : i \in 1..Len(TOPICS)}

\* getAllTopics(): Object.values(TOPICS).
getAllTopics == TOPICS

\* src/unnamed/part_006:60-85
KW_ai_ml ==
  << <<"a","r","t","i","f","i","c","i","a","l"," ","i","n","t","e","l","l","i","g","e","n","c","e">>,
     <<"m","a","c","h","i","n","e"," ","l","e","a","r","n","i","n","g">>,
     <<"d","e","e","p"," ","l","e","a","r","n","i","n","g">>,
     <<"n","e","u","r","a","l"," ","n","e","t","w","o","r","k">>,
     <<"c","h","a","t","g","p","t">>,
     <<"g","p","t","-","4">>,
     <<"g","p","t","-","5">>,
     <<"o","p","e","n","a","i">>,
     <<"a","n","t","h","r","o","p","i","c">>,
     <<"c","l","a","u","d","e">>,
     <<"g","e","m","i","n","i">>,
     <<"l","l","m">>,
     <<"l","a","r","g","e"," ","l","a","n","g","u","a","g","e"," ","m","o","d","e","l">>,
     <<"g","e","n","e","r","a","t","i","v","e"," ","a","i">>,
     <<"m","i","d","j","o","u","r","n","e","y">>,
     <<"s","t","a","b","l","e"," ","d","i","f","f","u","s","i","o","n">>,
     <<"d","a","l","l","-","e">>,
     <<"c","o","p","i","l","o","t">>,
     <<"a","i"," ","m","o","d","e","l">>,
     <<"t","r","a","n","s","f","o","r","m","e","r">>,
     <<"n","l","p">>,
     <<"c","o","m","p","u","t","e","r"," ","v","i","s","i","o","n">>,
     <<"t","e","n","s","o","r","f","l","o","w">>,
     <<"p","y","t","o","r","c","h">> >>

\* src/unnamed/part_006:86-108
KW_startups ==
  << <<"s","t","a","r","t","u","p">>,
     <<"f","u","n","d","i","n","g"," ","r","o","u","n","d">>,
     <<"s","e","r","i","e","s"," ","a">>,
     <<"s","e","r","i","e","s"," ","b">>,
     <<"s","e","r","i","e","s"," ","c">>,
     <<"s","e","e","d"," ","f","u","n","d","i","n","g">>,
     <<"v","e","n","t","u","r","e"," ","c","a","p","i","t","a","l">>,
     <<"v","c">>,
     <<"v","a","l","u","a","t","i","o","n">>,
     <<"u","n","i","c","o","r","n">>,
     <<"i","p","o">>,
     <<"a","c","q","u","i","s","i","t","i","o","n">>,
     <<"a","c","q","u","i","r","e","d">>,
     <<"m","e","r","g","e","r">>,
     <<"y"," ","c","o","m","b","i","n","a","t","o","r">>,
     <<"t","e","c","h","s","t","a","r","s">>,
     <<"a","c","c","e","l","e","r","a","t","o","r">>,
     <<"i","n","c","u","b","a","t","o","r">>,
     <<"f","u","n","d","r","a","i","s","e">>,
     <<"i","n","v","e","s","t","o","r">>,
     <<"p","i","t","c","h"," ","d","e","c","k">> >>

\* src/unnamed/part_006:109-144
KW_programming ==
  << <<"p","r","o","g","r","a","m","m","i","n","g">>,
     <<"d","e","v","e","l","o","p","e","r">>,
     <<"s","o","f","t","w","a","r","e"," ","e","n","g","i","n","e","e","r">>,
     <<"j","a","v","a","s","c","r","i","p","t">>,
     <<"t","y","p","e","s","c","r","i","p","t">>,
     <<"p","y","t","h","o","n">>,
     <<"r","u","s","t">>,
     <<"g","o","l","a","n","g">>,
     <<"r","e","a","c","t">>,
     <<"v","u","e">>,
     <<"a","n","g","u","l","a","r">>,
     <<"n","o","d","e",".","j","s">>,
     <<"a","p","i">>,
     <<"g","i","t","h","u","b">>,
     <<"g","i","t","l","a","b">>,
     <<"o","p","e","n"," ","s","o","u","r","c","e">>,
     <<"f","r","a","m","e","w","o","r","k">>,
     <<"l","i","b","r","a","r","y">>,
     <<"s","d","k">>,
     <<"d","e","v","o","p","s">>,
     <<"c","i","/","c","d">>,
     <<"d","o","c","k","e","r">>,
     <<"k","u","b","e","r","n","e","t","e","s">>,
     <<"a","w","s">>,
     <<"a","z","u","r","e">>,
     <<"g","c","p">>,
     <<"s","e","r","v","e","r","l","e","s","s">>,
     <<"d","a","t","a","b","a","s","e">>,
     <<"p","o","s","t","g","r","e","s","q","l">>,
     <<"m","o","n","g","o","d","b">>,
     <<"r","e","d","i","s">>,
     <<"g","r","a","p","h","q","l">>,
     <<"r","e","s","t"," ","a","p","i">>,
     <<"m","i","c","r","o","s","e","r","v","i","c","e","s">> >>

\* src/unnamed/part_006:145-167
KW_cybersecurity ==
  << <<"c","y","b","e","r","s","e","c","u","r","i","t","y">>,
     <<"s","e","c","u","r","i","t","y">>,
     <<"h","a","c","k">>,
     <<"h","a","c","k","e","r">>,
     <<"b","r","e","a","c","h">>,
     <<"d","a","t","a"," ","l","e","a","k">>,
     <<"v","u","l","n","e","r","a","b","i","l","i","t","y">>,
     <<"m","a","l","w","a","r","e">>,
     <<"r","a","n","s","o","m","w","a","r","e">>,
     <<"p","h","i","s","h","i","n","g">>,
     <<"z","e","r","o","-","d","a","y">>,
     <<"e","x","p","l","o","i","t">>,
     <<"e","n","c","r","y","p","t","i","o","n">>,
     <<"p","r","i","v","a","c","y">>,
     <<"g","d","p","r">>,
     <<"p","a","s","s","w","o","r","d">>,
     <<"a","u","t","h","e","n","t","i","c","a","t","i","o","n">>,
     <<"f","i","r","e","w","a","l","l">>,
     <<"v","p","n">>,
     <<"d","d","o","s">>,
     <<"c","y","b","e","r"," ","a","t","t","a","c","k">> >>

\* src/unnamed/part_006:168-197
KW_big_tech ==
  << <<"a","p","p","l","e">>,
     <<"g","o","o","g","l","e">>,
     <<"m","i","c","r","o","s","o","f","t">>,
     <<"a","m","a","z","o","n">>,
     <<"m","e","t","a">>,
     <<"f","a","c","e","b","o","o","k">>,
     <<"n","e","t","f","l","i","x">>,
     <<"t","e","s","l","a">>,
     <<"n","v","i","d","i","a">>,
     <<"i","n","t","e","l">>,
     <<"a","m","d">>,
     <<"q","u","a","l","c","o","m","m">>,
     <<"s","a","m","s","u","n","g">>,
     <<"i","p","h","o","n","e">>,
     <<"a","n","d","r","o","i","d">>,
     <<"w","i","n","d","o","w","s">>,
     <<"m","a","c","o","s">>,
     <<"i","o","s">>,
     <<"p","i","x","e","l">>,
     <<"s","u","r","f","a","c","e">>,
     <<"a","l","e","x","a">>,
     <<"s","i","r","i">>,
     <<"t","i","m"," ","c","o","o","k">>,
     <<"s","u","n","d","a","r"," ","p","i","c","h","a","i">>,
     <<"s","a","t","y","a"," ","n","a","d","e","l","l","a">>,
     <<"m","a","r","k"," ","z","u","c","k","e","r","b","e","r","g">>,
     <<"e","l","o","n"," ","m","u","s","k">>,
     <<"j","e","f","f"," ","b","e","z","o","s">> >>

\* src/unnamed/part_006:198-220
KW_crypto ==
  << <<"c","r","y","p","t","o">>,
     <<"c","r","y","p","t","o","c","u","r","r","e","n","c","y">>,
     <<"b","i","t","c","o","i","n">>,
     <<"e","t","h","e","r","e","u","m">>,
     <<"b","l","o","c","k","c","h","a","i","n">>,
     <<"w","e","b","3">>,
     <<"n","f","t">>,
     <<"d","e","f","i">>,
     <<"d","e","c","e","n","t","r","a","l","i","z","e","d">>,
     <<"t","o","k","e","n">>,
     <<"w","a","l","l","e","t">>,
     <<"b","i","n","a","n","c","e">>,
     <<"c","o","i","n","b","a","s","e">>,
     <<"s","o","l","a","n","a">>,
     <<"c","a","r","d","a","n","o">>,
     <<"d","o","g","e","c","o","i","n">>,
     <<"m","i","n","i","n","g">>,
     <<"s","t","a","k","i","n","g">>,
     <<"s","m","a","r","t"," ","c","o","n","t","r","a","c","t">>,
     <<"d","a","o">>,
     <<"m","e","t","a","v","e","r","s","e">> >>

\* src/unnamed/part_006:221-248
KW_hardware ==
  << <<"h","a","r","d","w","a","r","e">>,
     <<"g","a","d","g","e","t">>,
     <<"d","e","v","i","c","e">>,
     <<"s","m","a","r","t","p","h","o","n","e">>,
     <<"l","a","p","t","o","p">>,
     <<"t","a","b","l","e","t">>,
     <<"w","e","a","r","a","b","l","e">>,
     <<"s","m","a","r","t","w","a","t","c","h">>,
     <<"h","e","a","d","p","h","o","n","e">>,
     <<"e","a","r","b","u","d","s">>,
     <<"v","r"," ","h","e","a","d","s","e","t">>,
     <<"a","r"," ","g","l","a","s","s","e","s">>,
     <<"c","h","i","p">>,
     <<"p","r","o","c","e","s","s","o","r">>,
     <<"g","p","u">>,
     <<"c","p","u">>,
     <<"m","e","m","o","r","y">>,
     <<"s","s","d">>,
     <<"d","i","s","p","l","a","y">>,
     <<"o","l","e","d">>,
     <<"b","a","t","t","e","r","y">>,
     <<"c","h","a","r","g","e","r">>,
     <<"r","o","b","o","t">>,
     <<"d","r","o","n","e">>,
     <<"e","v">>,
     <<"e","l","e","c","t","r","i","c"," ","v","e","h","i","c","l","e">> >>

\* src/unnamed/part_006:249-270
KW_science ==
  << <<"s","c","i","e","n","c","e">>,
     <<"s","p","a","c","e">>,
     <<"n","a","s","a">>,
     <<"s","p","a","c","e","x">>,
     <<"r","o","c","k","e","t">>,
     <<"s","a","t","e","l","l","i","t","e">>,
     <<"m","a","r","s">>,
     <<"m","o","o","n">>,
     <<"a","s","t","e","r","o","i","d">>,
     <<"t","e","l","e","s","c","o","p","e">>,
     <<"q","u","a","n","t","u","m">>,
     <<"p","h","y","s","i","c","s">>,
     <<"b","i","o","l","o","g","y">>,
     <<"c","l","i","m","a","t","e">>,
     <<"r","e","s","e","a","r","c","h">>,
     <<"d","i","s","c","o","v","e","r","y">>,
     <<"e","x","p","e","r","i","m","e","n","t">>,
     <<"l","a","b","o","r","a","t","o","r","y">>,
     <<"s","c","i","e","n","t","i","s","t">>,
     <<"b","r","e","a","k","t","h","r","o","u","g","h">> >>

\* TOPIC_KEYWORDS, in the order Object.entries iterates it.
TOPIC_KEYWORDS ==
  << [slug |-> "ai-ml",         keywords |-> KW_ai_ml],
     [slug |-> "startups",      keywords |-> KW_startups],
     [slug |-> "programming",   keywords |-> KW_programming],
     [slug |-> "cybersecurity", keywords |-> KW_cybersecurity],
     [slug |-> "big-tech",      keywords |-> KW_big_tech],
     [slug |-> "crypto",        keywords |-> KW_crypto],
     [slug |-> "hardware",      keywords |-> KW_hardware],
     [slug |-> "science",       keywords |-> KW_science] >>

\* A threshold of 1.0: only a saturated confidence suffices.
FullThreshold == 3 * 100

\* A threshold of 0.5: one keyword hit no longer suffices.
HalfThreshold == 300 \div 2

\* Confidence threshold below which tagArticle falls back to AI: 0.33 * 300.
AI_FALLBACK_THRESHOLD == 99

\* --------------------------------------------------------- rule classifier
\* The keywords of one topic that occur in the text (the filter of the loop).
MatchedKeywords(text, keywords) ==
  SelectSeq(keywords, LAMBDA kw : Includes(text, ToLowerCase(kw)))

\* A confidence of a quarter per match.
QuarterPerMatch(n) == Min(75 * n, 300)

\* Math.min(matchedKeywords.length / 3, 1), times 300.
Confidence(n) == Min(100 * n, 300)

\* An iteration that also replaces bestMatch on an equal match count.
RuleStepLastWins(text, i, best) ==
  LET matched == MatchedKeywords(text, TOPIC_KEYWORDS[i].keywords)
  IN  IF Len(matched) >= Len(best.matchedKeywords) /\ Len(matched) > 0
        THEN [topicSlug |-> TOPIC_KEYWORDS[i].slug,
              confidence |-> Confidence(Len(matched)),
              source |-> "rule",
              matchedKeywords |-> matched]
        ELSE best

\* One iteration of the loop of tagArticleWithRules: topic i against bestMatch.
RuleStep(text, i, best) ==
  LET matched == MatchedKeywords(text, TOPIC_KEYWORDS[i].keywords)
  IN  IF Len(matched) > Len(best.matchedKeywords)
        THEN [topicSlug |-> TOPIC_KEYWORDS[i].slug,
              confidence |-> Confidence(Len(matched)),
              source |-> "rule",
              matchedKeywords |-> matched]
        ELSE best

\* The loop of tagArticleWithRules over the eight entries of TOPIC_KEYWORDS.
RuleLoop(text, best) ==
  LET b1 == RuleStep(text, 1, best)
      b2 == RuleStep(text, 2, b1)
      b3 == RuleStep(text, 3, b2)
      b4 == RuleStep(text, 4, b3)
      b5 == RuleStep(text, 5, b4)
      b6 == RuleStep(text, 6, b5)
      b7 == RuleStep(text, 7, b6)
  IN  RuleStep(text, 8, b7)

\* tagArticleWithRules(title, description): description <<>> is "no description".
tagArticleWithRulesOf(title, description) ==
  LET text == ToLowerCase(title \o <<" ">> \o description)
  IN  RuleLoop(text, [topicSlug |-> Null, confidence |-> 0,
                      source |-> "rule", matchedKeywords |-> <<>>])


\* The characters of the titles and descriptions the model uses.
Chars(s) ==
  CASE s = "New neural network model beats GPT-4 benchmark" ->
         <<"N","e","w"," ","n","e","u","r","a","l"," ","n","e","t","w","o","r","k"," ","m","o","d","e","l"," ","b","e","a","t","s"," ","G","P","T","-","4"," ","b","e","n","c","h","m","a","r","k">>
    [] s = "Company announces new product" ->
         <<"C","o","m","p","a","n","y"," ","a","n","n","o","u","n","c","e","s"," ","n","e","w"," ","p","r","o","d","u","c","t">>
    [] s = "Anthropic Claude" ->
         <<"A","n","t","h","r","o","p","i","c"," ","C","l","a","u","d","e">>
    [] s = "OpenAI update" ->
         <<"O","p","e","n","A","I"," ","u","p","d","a","t","e">>
    [] s = "OpenAI ChatGPT LLM launch" ->
         <<"O","p","e","n","A","I"," ","C","h","a","t","G","P","T"," ","L","L","M"," ","l","a","u","n","c","h">>
    [] s = "Startup hack" ->
         <<"S","t","a","r","t","u","p"," ","h","a","c","k">>
    [] s = "Apple unveils new iPhone" ->
         <<"A","p","p","l","e"," ","u","n","v","e","i","l","s"," ","n","e","w"," ","i","P","h","o","n","e">>
    [] s = "" ->
         <<>>

\* --------------------------------------------------------- fingerprint (hash.ts)
\* new URL(url) for the URLs the feed can return: the parser lowercases the
\* scheme and the host, and keeps the case of path, query and fragment.
\* ok = FALSE is a string new URL() throws on; raw holds the input's characters.
ParseUrl(url) ==
  CASE url = "https://Site.com/a/?utm_source=x" ->
         [ok |-> TRUE, protocol |-> <<"h","t","t","p","s",":">>, host |-> <<"s","i","t","e",".","c","o","m">>,
          pathname |-> <<"/","a","/">>,
          searchParams |-> << [key |-> "utm_source", value |-> <<"x">>] >>,
          raw |-> <<"h","t","t","p","s",":","/","/","S","i","t","e",".","c","o","m","/","a","/","?","u","t","m","_","s","o","u","r","c","e","=","x">>]
    [] url = "https://site.com/a" ->
         [ok |-> TRUE, protocol |-> <<"h","t","t","p","s",":">>, host |-> <<"s","i","t","e",".","c","o","m">>,
          pathname |-> <<"/","a">>,
          searchParams |-> <<>>,
          raw |-> <<"h","t","t","p","s",":","/","/","s","i","t","e",".","c","o","m","/","a">>]
    [] url = "https://site.com/b" ->
         [ok |-> TRUE, protocol |-> <<"h","t","t","p","s",":">>, host |-> <<"s","i","t","e",".","c","o","m">>,
          pathname |-> <<"/","b">>,
          searchParams |-> <<>>,
          raw |-> <<"h","t","t","p","s",":","/","/","s","i","t","e",".","c","o","m","/","b">>]
    [] url = "https://site.com/a?id=1" ->
         [ok |-> TRUE, protocol |-> <<"h","t","t","p","s",":">>, host |-> <<"s","i","t","e",".","c","o","m">>,
          pathname |-> <<"/","a">>,
          searchParams |-> <<[key |-> "id", value |-> <<"1">>]>>,
          raw |-> <<"h","t","t","p","s",":","/","/","s","i","t","e",".","c","o","m","/","a","?","i","d","=","1">>]
    [] url = "https://site.com/a?utm_source=x" ->
         [ok |-> TRUE, protocol |-> <<"h","t","t","p","s",":">>, host |-> <<"s","i","t","e",".","c","o","m">>,
          pathname |-> <<"/","a">>,
          searchParams |-> <<[key |-> "utm_source", value |-> <<"x">>]>>,
          raw |-> <<"h","t","t","p","s",":","/","/","s","i","t","e",".","c","o","m","/","a","?","u","t","m","_","s","o","u","r","c","e","=","x">>]
    [] url = "https://site.com/a?id=1&utm_source=x" ->
         [ok |-> TRUE, protocol |-> <<"h","t","t","p","s",":">>, host |-> <<"s","i","t","e",".","c","o","m">>,
          pathname |-> <<"/","a">>,
          searchParams |-> <<[key |-> "id", value |-> <<"1">>], [key |-> "utm_source", value |-> <<"x">>]>>,
          raw |-> <<"h","t","t","p","s",":","/","/","s","i","t","e",".","c","o","m","/","a","?","i","d","=","1","&","u","t","m","_","s","o","u","r","c","e","=","x">>]
    [] url = "https://site.com/a#top" ->
         [ok |-> TRUE, protocol |-> <<"h","t","t","p","s",":">>, host |-> <<"s","i","t","e",".","c","o","m">>,
          pathname |-> <<"/","a">>,
          searchParams |-> <<>>,
          raw |-> <<"h","t","t","p","s",":","/","/","s","i","t","e",".","c","o","m","/","a","#","t","o","p">>]
    [] url = "https://site.com/a?id=1#top" ->
         [ok |-> TRUE, protocol |-> <<"h","t","t","p","s",":">>, host |-> <<"s","i","t","e",".","c","o","m">>,
          pathname |-> <<"/","a">>,
          searchParams |-> <<[key |-> "id", value |-> <<"1">>]>>,
          raw |-> <<"h","t","t","p","s",":","/","/","s","i","t","e",".","c","o","m","/","a","?","i","d","=","1","#","t","o","p">>]
    [] url = "https://site.com/a?utm_source=x#top" ->
         [ok |-> TRUE, protocol |-> <<"h","t","t","p","s",":">>, host |-> <<"s","i","t","e",".","c","o","m">>,
          pathname |-> <<"/","a">>,
          searchParams |-> <<[key |-> "utm_source", value |-> <<"x">>]>>,
          raw |-> <<"h","t","t","p","s",":","/","/","s","i","t","e",".","c","o","m","/","a","?","u","t","m","_","s","o","u","r","c","e","=","x","#","t","o","p">>]
    [] url = "https://site.com/a?id=1&utm_source=x#top" ->
         [ok |-> TRUE, protocol |-> <<"h","t","t","p","s",":">>, host |-> <<"s","i","t","e",".","c","o","m">>,
          pathname |-> <<"/","a">>,
          searchParams |-> <<[key |-> "id", value |-> <<"1">>], [key |-> "utm_source", value |-> <<"x">>]>>,
          raw |-> <<"h","t","t","p","s",":","/","/","s","i","t","e",".","c","o","m","/","a","?","i","d","=","1","&","u","t","m","_","s","o","u","r","c","e","=","x","#","t","o","p">>]
    [] url = "https://site.com/a/" ->
         [ok |-> TRUE, protocol |-> <<"h","t","t","p","s",":">>, host |-> <<"s","i","t","e",".","c","o","m">>,
          pathname |-> <<"/","a","/">>,
          searchParams |-> <<>>,
          raw |-> <<"h","t","t","p","s",":","/","/","s","i","t","e",".","c","o","m","/","a","/">>]
    [] url = "https://site.com/a/?id=1" ->
         [ok |-> TRUE, protocol |-> <<"h","t","t","p","s",":">>, host |-> <<"s","i","t","e",".","c","o","m">>,
          pathname |-> <<"/","a","/">>,
          searchParams |-> <<[key |-> "id", value |-> <<"1">>]>>,
          raw |-> <<"h","t","t","p","s",":","/","/","s","i","t","e",".","c","o","m","/","a","/","?","i","d","=","1">>]
    [] url = "https://site.com/a/?utm_source=x" ->
         [ok |-> TRUE, protocol |-> <<"h","t","t","p","s",":">>, host |-> <<"s","i","t","e",".","c","o","m">>,
          pathname |-> <<"/","a","/">>,
          searchParams |-> <<[key |-> "utm_source", value |-> <<"x">>]>>,
          raw |-> <<"h","t","t","p","s",":","/","/","s","i","t","e",".","c","o","m","/","a","/","?","u","t","m","_","s","o","u","r","c","e","=","x">>]
    [] url = "https://site.com/a/?id=1&utm_source=x" ->
         [ok |-> TRUE, protocol |-> <<"h","t","t","p","s",":">>, host |-> <<"s","i","t","e",".","c","o","m">>,
          pathname |-> <<"/","a","/">>,
          searchParams |-> <<[key |-> "id", value |-> <<"1">>], [key |-> "utm_source", value |-> <<"x">>]>>,
          raw |-> <<"h","t","t","p","s",":","/","/","s","i","t","e",".","c","o","m","/","a","/","?","i","d","=","1","&","u","t","m","_","s","o","u","r","c","e","=","x">>]
    [] url = "https://site.com/a/#top" ->
         [ok |-> TRUE, protocol |-> <<"h","t","t","p","s",":">>, host |-> <<"s","i","t","e",".","c","o","m">>,
          pathname |-> <<"/","a","/">>,
          searchParams |-> <<>>,
          raw |-> <<"h","t","t","p","s",":","/","/","s","i","t","e",".","c","o","m","/","a","/","#","t","o","p">>]
    [] url = "https://site.com/a/?id=1#top" ->
         [ok |-> TRUE, protocol |-> <<"h","t","t","p","s",":">>, host |-> <<"s","i","t","e",".","c","o","m">>,
          pathname |-> <<"/","a","/">>,
          searchParams |-> <<[key |-> "id", value |-> <<"1">>]>>,
          raw |-> <<"h","t","t","p","s",":","/","/","s","i","t","e",".","c","o","m","/","a","/","?","i","d","=","1","#","t","o","p">>]
    [] url = "https://site.com/a/?utm_source=x#top" ->
         [ok |-> TRUE, protocol |-> <<"h","t","t","p","s",":">>, host |-> <<"s","i","t","e",".","c","o","m">>,
          pathname |-> <<"/","a","/">>,
          searchParams |-> <<[key |-> "utm_source", value |-> <<"x">>]>>,
          raw |-> <<"h","t","t","p","s",":","/","/","s","i","t","e",".","c","o","m","/","a","/","?","u","t","m","_","s","o","u","r","c","e","=","x","#","t","o","p">>]
    [] url = "https://site.com/a/?id=1&utm_source=x#top" ->
         [ok |-> TRUE, protocol |-> <<"h","t","t","p","s",":">>, host |-> <<"s","i","t","e",".","c","o","m">>,
          pathname |-> <<"/","a","/">>,
          searchParams |-> <<[key |-> "id", value |-> <<"1">>], [key |-> "utm_source", value |-> <<"x">>]>>,
          raw |-> <<"h","t","t","p","s",":","/","/","s","i","t","e",".","c","o","m","/","a","/","?","i","d","=","1","&","u","t","m","_","s","o","u","r","c","e","=","x","#","t","o","p">>]
    [] url = "https://Site.com/A" ->
         [ok |-> TRUE, protocol |-> <<"h","t","t","p","s",":">>, host |-> <<"s","i","t","e",".","c","o","m">>,
          pathname |-> <<"/","A">>,
          searchParams |-> <<>>,
          raw |-> <<"h","t","t","p","s",":","/","/","S","i","t","e",".","c","o","m","/","A">>]
    [] url = "https://Site.com/A?id=1" ->
         [ok |-> TRUE, protocol |-> <<"h","t","t","p","s",":">>, host |-> <<"s","i","t","e",".","c","o","m">>,
          pathname |-> <<"/","A">>,
          searchParams |-> <<[key |-> "id", value |-> <<"1">>]>>,
          raw |-> <<"h","t","t","p","s",":","/","/","S","i","t","e",".","c","o","m","/","A","?","i","d","=","1">>]
    [] url = "https://Site.com/A?utm_source=x" ->
         [ok |-> TRUE, protocol |-> <<"h","t","t","p","s",":">>, host |-> <<"s","i","t","e",".","c","o","m">>,
          pathname |-> <<"/","A">>,
          searchParams |-> <<[key |-> "utm_source", value |-> <<"x">>]>>,
          raw |-> <<"h","t","t","p","s",":","/","/","S","i","t","e",".","c","o","m","/","A","?","u","t","m","_","s","o","u","r","c","e","=","x">>]
    [] url = "https://Site.com/A?id=1&utm_source=x" ->
         [ok |-> TRUE, protocol |-> <<"h","t","t","p","s",":">>, host |-> <<"s","i","t","e",".","c","o","m">>,
          pathname |-> <<"/","A">>,
          searchParams |-> <<[key |-> "id", value |-> <<"1">>], [key |-> "utm_source", value |-> <<"x">>]>>,
          raw |-> <<"h","t","t","p","s",":","/","/","S","i","t","e",".","c","o","m","/","A","?","i","d","=","1","&","u","t","m","_","s","o","u","r","c","e","=","x">>]
    [] url = "https://Site.com/A#top" ->
         [ok |-> TRUE, protocol |-> <<"h","t","t","p","s",":">>, host |-> <<"s","i","t","e",".","c","o","m">>,
          pathname |-> <<"/","A">>,
          searchParams |-> <<>>,
          raw |-> <<"h","t","t","p","s",":","/","/","S","i","t","e",".","c","o","m","/","A","#","t","o","p">>]
    [] url = "https://Site.com/A?id=1#top" ->
         [ok |-> TRUE, protocol |-> <<"h","t","t","p","s",":">>, host |-> <<"s","i","t","e",".","c","o","m">>,
          pathname |-> <<"/","A">>,
          searchParams |-> <<[key |-> "id", value |-> <<"1">>]>>,
          raw |-> <<"h","t","t","p","s",":","/","/","S","i","t","e",".","c","o","m","/","A","?","i","d","=","1","#","t","o","p">>]
    [] url = "https://Site.com/A?utm_source=x#top" ->
         [ok |-> TRUE, protocol |-> <<"h","t","t","p","s",":">>, host |-> <<"s","i","t","e",".","c","o","m">>,
          pathname |-> <<"/","A">>,
          searchParams |-> <<[key |-> "utm_source", value |-> <<"x">>]>>,
          raw |-> <<"h","t","t","p","s",":","/","/","S","i","t","e",".","c","o","m","/","A","?","u","t","m","_","s","o","u","r","c","e","=","x","#","t","o","p">>]
    [] url = "https://Site.com/A?id=1&utm_source=x#top" ->
         [ok |-> TRUE, protocol |-> <<"h","t","t","p","s",":">>, host |-> <<"s","i","t","e",".","c","o","m">>,
          pathname |-> <<"/","A">>,
          searchParams |-> <<[key |-> "id", value |-> <<"1">>], [key |-> "utm_source", value |-> <<"x">>]>>,
          raw |-> <<"h","t","t","p","s",":","/","/","S","i","t","e",".","c","o","m","/","A","?","i","d","=","1","&","u","t","m","_","s","o","u","r","c","e","=","x","#","t","o","p">>]
    [] url = "https://Site.com/A/" ->
         [ok |-> TRUE, protocol |-> <<"h","t","t","p","s",":">>, host |-> <<"s","i","t","e",".","c","o","m">>,
          pathname |-> <<"/","A","/">>,
          searchParams |-> <<>>,
          raw |-> <<"h","t","t","p","s",":","/","/","S","i","t","e",".","c","o","m","/","A","/">>]
    [] url = "https://Site.com/A/?id=1" ->
         [ok |-> TRUE, protocol |-> <<"h","t","t","p","s",":">>, host |-> <<"s","i","t","e",".","c","o","m">>,
          pathname |-> <<"/","A","/">>,
          searchParams |-> <<[key |-> "id", value |-> <<"1">>]>>,
          raw |-> <<"h","t","t","p","s",":","/","/","S","i","t","e",".","c","o","m","/","A","/","?","i","d","=","1">>]
    [] url = "https://Site.com/A/?utm_source=x" ->
         [ok |-> TRUE, protocol |-> <<"h","t","t","p","s",":">>, host |-> <<"s","i","t","e",".","c","o","m">>,
          pathname |-> <<"/","A","/">>,
          searchParams |-> <<[key |-> "utm_source", value |-> <<"x">>]>>,
          raw |-> <<"h","t","t","p","s",":","/","/","S","i","t","e",".","c","o","m","/","A","/","?","u","t","m","_","s","o","u","r","c","e","=","x">>]
    [] url = "https://Site.com/A/?id=1&utm_source=x" ->
         [ok |-> TRUE, protocol |-> <<"h","t","t","p","s",":">>, host |-> <<"s","i","t","e",".","c","o","m">>,
          pathname |-> <<"/","A","/">>,
          searchParams |-> <<[key |-> "id", value |-> <<"1">>], [key |-> "utm_source", value |-> <<"x">>]>>,
          raw |-> <<"h","t","t","p","s",":","/","/","S","i","t","e",".","c","o","m","/","A","/","?","i","d","=","1","&","u","t","m","_","s","o","u","r","c","e","=","x">>]
    [] url = "https://Site.com/A/#top" ->
         [ok |-> TRUE, protocol |-> <<"h","t","t","p","s",":">>, host |-> <<"s","i","t","e",".","c","o","m">>,
          pathname |-> <<"/","A","/">>,
          searchParams |-> <<>>,
          raw |-> <<"h","t","t","p","s",":","/","/","S","i","t","e",".","c","o","m","/","A","/","#","t","o","p">>]
    [] url = "https://Site.com/A/?id=1#top" ->
         [ok |-> TRUE, protocol |-> <<"h","t","t","p","s",":">>, host |-> <<"s","i","t","e",".","c","o","m">>,
          pathname |-> <<"/","A","/">>,
          searchParams |-> <<[key |-> "id", value |-> <<"1">>]>>,
          raw |-> <<"h","t","t","p","s",":","/","/","S","i","t","e",".","c","o","m","/","A","/","?","i","d","=","1","#","t","o","p">>]
    [] url = "https://Site.com/A/?utm_source=x#top" ->
         [ok |-> TRUE, protocol |-> <<"h","t","t","p","s",":">>, host |-> <<"s","i","t","e",".","c","o","m">>,
          pathname |-> <<"/","A","/">>,
          searchParams |-> <<[key |-> "utm_source", value |-> <<"x">>]>>,
          raw |-> <<"h","t","t","p","s",":","/","/","S","i","t","e",".","c","o","m","/","A","/","?","u","t","m","_","s","o","u","r","c","e","=","x","#","t","o","p">>]
    [] url = "https://Site.com/A/?id=1&utm_source=x#top" ->
         [ok |-> TRUE, protocol |-> <<"h","t","t","p","s",":">>, host |-> <<"s","i","t","e",".","c","o","m">>,
          pathname |-> <<"/","A","/">>,
          searchParams |-> <<[key |-> "id", value |-> <<"1">>], [key |-> "utm_source", value |-> <<"x">>]>>,
          raw |-> <<"h","t","t","p","s",":","/","/","S","i","t","e",".","c","o","m","/","A","/","?","i","d","=","1","&","u","t","m","_","s","o","u","r","c","e","=","x","#","t","o","p">>]

\* The shapes of the URLs of one page: letters in upper case or not, a
\* trailing slash or not, a fragment or not, a tracking parameter or not, a
\* parameter that is not a tracking parameter or not.
UrlShapes ==
  [upper : BOOLEAN, slash : BOOLEAN, fragment : BOOLEAN, tracking : BOOLEAN,
   param : BOOLEAN]

\* The URL of a shape.
UrlOf(f) ==
  "https://" \o (IF f.upper THEN "Site.com/A" ELSE "site.com/a")
    \o (IF f.slash THEN "/" ELSE "")
    \o (IF f.param \/ f.tracking THEN "?" ELSE "")
    \o (IF f.param THEN "id=1" ELSE "")
    \o (IF f.param /\ f.tracking THEN "&" ELSE "")
    \o (IF f.tracking THEN "utm_source=x" ELSE "")
    \o (IF f.fragment THEN "#top" ELSE "")

\* The tracking parameters normalizeUrl deletes.
trackingParams ==
  {"utm_source", "utm_medium", "utm_campaign", "utm_term", "utm_content",
   "ref", "source", "fbclid", "gclid"}

\* The characters of a parameter name.
KeyChars(k) ==
  CASE k = "utm_source" -> <<"u","t","m","_","s","o","u","r","c","e">>
    [] k = "id" -> <<"i","d">>

\* URLSearchParams.toString(): key=value pairs joined by "&".
RECURSIVE ParamsToString(_)
ParamsToString(ps) ==
  IF ps = <<>> THEN <<>>
  ELSE KeyChars(Head(ps).key) \o <<"=">> \o Head(ps).value
       \o (IF Len(ps) > 1 THEN <<"&">> ELSE <<>>) \o ParamsToString(Tail(ps))

\* String.prototype.trim, for the blank character.
RECURSIVE Trim(_)
Trim(s) ==
  IF s = <<>> THEN s
  ELSE IF Head(s) = " " THEN Trim(Tail(s))
  ELSE IF s[Len(s)] = " " THEN Trim(SubSeq(s, 1, Len(s) - 1))
  ELSE s

\* A normalization that keeps the trailing slash.
KeepTrailingSlash(s) == s

\* replace(/\/$/, ""): one trailing slash removed.
StripTrailingSlash(s) ==
  IF s # <<>> /\ s[Len(s)] = "/" THEN SubSeq(s, 1, Len(s) - 1) ELSE s

\* normalizeUrl(url).
normalizeUrl(url) ==
  LET parsed == ParseUrl(url) IN
  IF ~parsed.ok THEN Trim(ToLowerCase(parsed.raw))
  ELSE LET remaining == SelectSeq(parsed.searchParams,
                                  LAMBDA p : p.key \notin trackingParams)
           remainingParams == ParamsToString(remaining)
           base == parsed.protocol \o <<"/", "/">> \o parsed.host \o parsed.pathname
           normalized == IF remainingParams # <<>>
                           THEN base \o <<"?">> \o remainingParams
                           ELSE base
       IN  StripTrailingSlash(ToLowerCase(normalized))

\* createHash("sha256").update(s).digest("hex"): a collision-free digest,
\* represented by the string it digests.
Sha256(s) == s

\* hashUrl(url).
hashUrl(url) == Sha256(normalizeUrl(url))

\* ------------------------------------------------------------ feed (gnews.ts)
\* The GNewsArticle values the feed can return (title, description, url,
\* publishedAt in ticks of the model's clock).
Items ==
  << [title |-> "New neural network model beats GPT-4 benchmark", description |-> "",
      url |-> "https://Site.com/a/?utm_source=x", publishedAt |-> 1],
     [title |-> "Company announces new product", description |-> "",
      url |-> "https://site.com/a", publishedAt |-> 2],
     [title |-> "OpenAI update", description |-> "",
      url |-> "https://site.com/b", publishedAt |-> 3] >>

\* The texts the classifier is given: those of the feed and a few more.
Titles ==
  {Items[i].title : i \in 1..Len(Items)}
    \cup {"OpenAI ChatGPT LLM launch", "Startup hack"}
Descriptions ==
  {Items[i].description : i \in 1..Len(Items)}
    \cup {"Apple unveils new iPhone", "Anthropic Claude"}

\* tagArticleWithRules on each text, computed once.
RuleTable ==
  [t \in Titles |-> [d \in Descriptions |-> tagArticleWithRulesOf(Chars(t), Chars(d))]]

\* tagArticleWithRules(title, description) on the strings of a feed item.
tagArticleWithRules(title, description) == RuleTable[title][description]

\* The responses of the feed: up to max different items, as indexes into Items.
FeedsUpTo(max) ==
  {f \in UNION {[1..n -> 1..Len(Items)] : n \in 0..max} :
     \A i, j \in DOMAIN f : i # j => f[i] # f[j]}

\* The ingestion runs.
Runs == {1, 2}

\* The callers of generateDailyDigest: two direct callers and the batch
\* coordinator.
Direct == {"a", "b"}
Callers == Direct \cup {"batch"}

\* Time is counted in ticks of 12 hours: the 24 hours of a day, and of the
\* window of a digest.
DayTicks == 2

\* maxArticles = 70, the default of generateDailyDigest.
DefaultMaxArticles == 70

\* The instants digests are asked for: two of day 2, whose window holds every
\* item, and one of day 4, whose window starts after the first item.
AsOfTimes == {2, 3, 4}

\* The scopes direct callers ask for: global, and a topic.
SynTopics == {Null, "science"}

VARIABLES
  env,       \* process.env: which credentials are set
  topics,    \* table topics
  articles,  \* table articles
  digests,   \* table digests
  nextId,    \* the next row identity (uuid defaultRandom)
  faults,    \* store and collaborator faults injected so far
  run,       \* the ingestion runs (fetchAndStoreArticles)
  tagIn,     \* the arguments of a tagArticle call
  tagOut,    \* what that call returned
  syn,       \* the generateDailyDigest call of each caller
  batch,     \* the generateAllDailyDigests call
  calls,     \* direct generateDailyDigest calls made so far
  hashIn,    \* the arguments of two hashUrl calls
  hashOut,   \* what those calls returned
  browse     \* a client paging through article.browse

vars ==
  <<env, topics, articles, digests, nextId, faults, run, tagIn, tagOut, syn, batch,
    calls, hashIn, hashOut, browse>>

\* --------------------------------------------------------- store (schema.ts)
\* An index on url_hash that is not unique.
NoUrlHashIdx(rows, row) == TRUE

\* uniqueIndex("articles_url_hash_idx"): the index accepts the new row.
ArticlesUrlHashIdx(rows, row) == \A a \in rows : a.urlHash # row.urlHash

\* topics.name and topics.slug are unique(): the constraints accept the row.
TopicsUnique(rows, row) == \A t \in rows : t.slug # row.slug /\ t.name # row.name

\* A duplicate check that never finds a row.
FindNoArticle(rows, urlHash) == {}

\* db.query.articles.findFirst({where: eq(urlHash)}): the rows it can return.
FindArticleByHash(rows, urlHash) == {a \in rows : a.urlHash = urlHash}

\* A topic lookup that never finds a row.
FindNoTopic(rows, slug) == {}

\* db.query.topics.findFirst({where: eq(slug)}): the rows it can return.
FindTopicBySlug(rows, slug) == {t \in rows : t.slug = slug}

\* A store or collaborator call may fail while the fault budget lasts.
CanFail == faults < MaxFaults

\* --------------------------------------------- classification cascade
\* What the text-classification collaborator (generateObject) can do: fail,
\* or answer with a topic or null and a confidence.
AIOutcomes ==
  {[ok |-> FALSE, topicSlug |-> Null, confidence |-> 0]}
    \cup {[ok |-> TRUE, topicSlug |-> s, confidence |-> c] :
            s \in {"science", Null}, c \in {0, 150, 300}}

\* An aiTagArticle whose catch answers with a topic of its own.
aiTagArticleDefault(ai) ==
  IF ai.ok
    THEN [topicSlug |-> ai.topicSlug, confidence |-> ai.confidence,
          reasoning |-> "model"]
    ELSE [topicSlug |-> "science", confidence |-> 0, reasoning |-> "AI tagging failed"]

\* aiTagArticle: the collaborator's object, or the failure object of its catch.
aiTagArticle(ai) ==
  IF ai.ok
    THEN [topicSlug |-> ai.topicSlug, confidence |-> ai.confidence,
          reasoning |-> "model"]
    ELSE [topicSlug |-> Null, confidence |-> 0, reasoning |-> "AI tagging failed"]

\* A tagArticle that does not look at OPENAI_API_KEY.
tagArticleWithoutKeyCheck(title, description, useAI, apiKey, ai) ==
  LET ruleResult == tagArticleWithRules(title, description) IN
  IF ruleResult.confidence >= AI_FALLBACK_THRESHOLD \/ ~useAI
    THEN [result |-> ruleResult, aiCalls |-> 0]
  ELSE LET aiResult == aiTagArticle(ai)
       IN  [result |-> [topicSlug |-> aiResult.topicSlug,
                        confidence |-> aiResult.confidence,
                        source |-> "ai",
                        reasoning |-> aiResult.reasoning],
            aiCalls |-> 1]

\* A tagArticle that keeps the rule result when the collaborator names no
\* topic.
tagArticleKeepsRule(title, description, useAI, apiKey, ai) ==
  LET ruleResult == tagArticleWithRules(title, description) IN
  IF ruleResult.confidence >= AI_FALLBACK_THRESHOLD \/ ~useAI \/ ~apiKey
    THEN [result |-> ruleResult, aiCalls |-> 0]
  ELSE LET aiResult == aiTagArticle(ai)
       IN  IF aiResult.topicSlug = Null
             THEN [result |-> ruleResult, aiCalls |-> 1]
             ELSE [result |-> [topicSlug |-> aiResult.topicSlug,
                               confidence |-> aiResult.confidence,
                               source |-> "ai",
                               reasoning |-> aiResult.reasoning],
                   aiCalls |-> 1]

\* tagArticle(title, description, {useAI}) with OPENAI_API_KEY set or not and
\* the collaborator behaving as ai: the TagResult returned and the number of
\* collaborator calls made.  aiTagArticle never throws, so the catch of
\* tagArticle is not entered.
tagArticle(title, description, useAI, apiKey, ai) ==
  LET ruleResult == tagArticleWithRules(title, description) IN
  IF ruleResult.confidence >= AI_FALLBACK_THRESHOLD
    THEN [result |-> ruleResult, aiCalls |-> 0]
  ELSE IF ~useAI \/ ~apiKey
    THEN [result |-> ruleResult, aiCalls |-> 0]
  ELSE LET aiResult == aiTagArticle(ai)
       IN  [result |-> [topicSlug |-> aiResult.topicSlug,
                        confidence |-> aiResult.confidence,
                        source |-> "ai",
                        reasoning |-> aiResult.reasoning],
            aiCalls |-> 1]

\* ------------------------------------------- ingestion orchestrator (fetcher.ts)
\* The FetchResult a run starts with.
EmptyResult ==
  [fetched |-> 0, inserted |-> 0, duplicates |-> 0, taggedByRule |-> 0,
   taggedByAI |-> 0, untagged |-> 0, errors |-> <<>>]

\* The bookkeeping of the item being processed: calls of tagArticle and of the
\* collaborator made for it, and whether the collaborator failed.
NoCur ==
  [tagCalls |-> 0, aiCalls |-> 0, aiFailed |-> FALSE,
   ai |-> [ok |-> FALSE, topicSlug |-> Null, confidence |-> 0]]

NoTag ==
  [topicSlug |-> Null, confidence |-> 0, source |-> "rule", topicId |-> Null]

IdleRun ==
  [pc |-> "idle", useAI |-> FALSE, seedIdx |-> 0, feed |-> <<>>, idx |-> 0,
   topicMap |-> {}, tag |-> NoTag, result |-> EmptyResult, cur |-> NoCur,
   hist |-> <<>>, fetchFailed |-> FALSE]

\* The item a run is processing.
Article(rr) == Items[rr.feed[rr.idx]]

\* The for loop of fetchAndStoreArticles moves to the next article, or the
\* function returns result.
AbortBatch(rr) == [rr EXCEPT !.pc = "done"]
NextArticle(rr) ==
  IF rr.idx < Len(rr.feed)
    THEN [rr EXCEPT !.pc = "check", !.idx = @ + 1, !.cur = NoCur, !.tag = NoTag]
    ELSE [rr EXCEPT !.pc = "done"]

\* One item's processing ended with outcome o ("dup", "ins" or "err"; an error
\* at stage of processArticle).
Logged(rr, o, stage) ==
  [rr EXCEPT !.hist = Append(@, [item |-> rr.idx, outcome |-> o, stage |-> stage,
                                 tagCalls |-> rr.cur.tagCalls,
                                 aiCalls |-> rr.cur.aiCalls,
                                 aiFailed |-> rr.cur.aiFailed,
                                 topicId |-> rr.tag.topicId])]

\* A catch that records the failure and gives up the rest of the batch.
ItemCatchAborts(rr, stage, message) ==
  AbortBatch(Logged(
    [rr EXCEPT !.result.errors =
       Append(@, [kind |-> "Failed to process", title |-> Article(rr).title,
                  message |-> message, item |-> rr.idx])],
    "err", stage))

\* A catch that swallows the failure without an entry of errors.
ItemCatchSilent(rr, stage, message) == NextArticle(Logged(rr, "err", stage))

\* The inner catch: `Failed to process "${article.title}": ${message}` is
\* pushed and the loop goes on.
ItemCatch(rr, stage, message) ==
  NextArticle(Logged(
    [rr EXCEPT !.result.errors =
       Append(@, [kind |-> "Failed to process", title |-> Article(rr).title,
                  message |-> message, item |-> rr.idx])],
    "err", stage))

\* An outer catch that swallows the failure.
OuterCatchSilent(rr, message) == [rr EXCEPT !.pc = "done"]

\* The outer catch: `Fetch failed: ${message}` is pushed and result returned.
OuterCatch(rr, message) ==
  [rr EXCEPT !.pc = "done",
             !.result.errors = Append(@, [kind |-> "Fetch failed", title |-> "",
                                          message |-> message, item |-> 0])]

\* seedTopics moves to the next topic, or returns to fetchAndStoreArticles.
NextSeed(rr) ==
  IF rr.seedIdx < Len(getAllTopics)
    THEN [rr EXCEPT !.pc = "seedFind", !.seedIdx = @ + 1]
    ELSE [rr EXCEPT !.pc = "fetch"]

\* fetchAndStoreArticles({useAI}) is called: result is initialised and
\* seedTopics starts.
StartRun(r) ==
  /\ run[r].pc = "idle"
  /\ \E useAI \in BOOLEAN :
       run' = [run EXCEPT ![r] =
                 [IdleRun EXCEPT !.pc = "seedFind", !.useAI = useAI, !.seedIdx = 1]]
  /\ UNCHANGED <<env, topics, articles, digests, nextId, faults, tagIn, tagOut,
                 syn, batch, calls, hashIn, hashOut, browse>>

\* seedTopics: findFirst by slug; an existing topic is skipped.
SeedFind(r) ==
  /\ run[r].pc = "seedFind"
  /\ LET topic == getAllTopics[run[r].seedIdx]
         existing == FindTopicBySlug(topics, topic.slug)
     IN  run' = [run EXCEPT ![r] =
                   IF existing # {} THEN NextSeed(@) ELSE [@ EXCEPT !.pc = "seedInsert"]]
  /\ UNCHANGED <<env, topics, articles, digests, nextId, faults, tagIn, tagOut,
                 syn, batch, calls, hashIn, hashOut, browse>>

\* seedTopics: insert of the missing topic; the unique constraints may reject it.
SeedInsert(r) ==
  /\ run[r].pc = "seedInsert"
  /\ LET topic == getAllTopics[run[r].seedIdx]
         row == [id |-> topic.slug, name |-> topic.name, slug |-> topic.slug,
                 sortOrder |-> topic.sortOrder]
     IN  IF TopicsUnique(topics, row)
           THEN /\ topics' = topics \cup {row}
                /\ run' = [run EXCEPT ![r] = NextSeed(@)]
           ELSE /\ topics' = topics
                /\ run' = [run EXCEPT ![r] = OuterCatch(@, "duplicate key")]
  /\ UNCHANGED <<env, articles, digests, nextId, faults, tagIn, tagOut,
                 syn, batch, calls, hashIn, hashOut, browse>>

\* A store call of seedTopics, or the findMany of the topic map, throws.
SetupFails(r) ==
  /\ run[r].pc \in {"seedFind", "seedInsert", "topicMap"}
  /\ CanFail
  /\ faults' = faults + 1
  /\ run' = [run EXCEPT ![r] = OuterCatch(@, "store error")]
  /\ UNCHANGED <<env, topics, articles, digests, nextId, tagIn, tagOut,
                 syn, batch, calls, hashIn, hashOut, browse>>

\* fetchGNewsTopHeadlines returns a response; result.fetched is set.
Fetch(r, max) ==
  /\ run[r].pc = "fetch"
  /\ env.GNEWS_API_KEY
  /\ \E f \in FeedsUpTo(max) :
       run' = [run EXCEPT ![r] = [@ EXCEPT !.pc = "topicMap", !.feed = f,
                                           !.result.fetched = Len(f)]]
  /\ UNCHANGED <<env, topics, articles, digests, nextId, faults, tagIn, tagOut,
                 syn, batch, calls, hashIn, hashOut, browse>>

\* fetchGNewsTopHeadlines throws: no API key, or the response is not ok.
FetchFails(r) ==
  /\ run[r].pc = "fetch"
  /\ \/ /\ ~env.GNEWS_API_KEY
        /\ faults' = faults
        /\ run' = [run EXCEPT ![r] =
                     [OuterCatch(@, "GNEWS_API_KEY environment variable is not set")
                        EXCEPT !.fetchFailed = TRUE]]
     \/ /\ env.GNEWS_API_KEY
        /\ CanFail
        /\ faults' = faults + 1
        /\ run' = [run EXCEPT ![r] =
                     [OuterCatch(@, "GNews API error") EXCEPT !.fetchFailed = TRUE]]
  /\ UNCHANGED <<env, topics, articles, digests, nextId, tagIn, tagOut,
                 syn, batch, calls, hashIn, hashOut, browse>>

\* db.query.topics.findMany() and the slug -> id map; then the loop starts.
TopicMap(r) ==
  /\ run[r].pc = "topicMap"
  /\ run' = [run EXCEPT ![r] =
               NextArticle([@ EXCEPT !.topicMap = {t.slug : t \in topics}])]
  /\ UNCHANGED <<env, topics, articles, digests, nextId, faults, tagIn, tagOut,
                 syn, batch, calls, hashIn, hashOut, browse>>

\* processArticle: the duplicate check.
CheckDuplicate(r) ==
  /\ run[r].pc = "check"
  /\ LET existing == FindArticleByHash(articles, hashUrl(Article(run[r]).url))
     IN  run' = [run EXCEPT ![r] =
                   IF existing # {}
                     THEN NextArticle(Logged([@ EXCEPT !.result.duplicates = @ + 1],
                                             "dup", "none"))
                     ELSE [@ EXCEPT !.pc = "tag"]]
  /\ UNCHANGED <<env, topics, articles, digests, nextId, faults, tagIn, tagOut,
                 syn, batch, calls, hashIn, hashOut, browse>>

\* processArticle: tagArticle returns, the topic is looked up in the map and
\* the tagging counters are updated; the insert is issued.
Tag(r) ==
  /\ run[r].pc = "tag"
  /\ \E ai \in AIOutcomes :
       LET article == Article(run[r])
           t == tagArticle(article.title, article.description, run[r].useAI,
                           env.OPENAI_API_KEY, ai)
           tagResult == t.result
           topicId == IF tagResult.topicSlug # Null /\ tagResult.topicSlug \in run[r].topicMap
                        THEN tagResult.topicSlug ELSE Null
       IN  run' = [run EXCEPT ![r] =
                     [@ EXCEPT !.pc = "insert",
                               !.tag = [topicSlug |-> tagResult.topicSlug,
                                        confidence |-> tagResult.confidence,
                                        source |-> tagResult.source,
                                        topicId |-> topicId],
                               !.cur = [tagCalls |-> @.tagCalls + 1,
                                        aiCalls |-> @.aiCalls + t.aiCalls,
                                        aiFailed |-> t.aiCalls > 0 /\ ~ai.ok,
                                        ai |-> IF t.aiCalls > 0 THEN ai ELSE @.ai],
                               !.result.taggedByAI =
                                  IF tagResult.topicSlug # Null /\ tagResult.source = "ai"
                                    THEN @ + 1 ELSE @,
                               !.result.taggedByRule =
                                  IF tagResult.topicSlug # Null /\ tagResult.source # "ai"
                                    THEN @ + 1 ELSE @,
                               !.result.untagged =
                                  IF tagResult.topicSlug = Null THEN @ + 1 ELSE @]]
  /\ UNCHANGED <<env, topics, articles, digests, nextId, faults, tagIn, tagOut,
                 syn, batch, calls, hashIn, hashOut, browse>>

\* The row processArticle inserts for article, tagged topicId, in run r.
ArticleRow(id, article, topicId, r) ==
  [id |-> id, topicId |-> topicId, title |-> article.title, url |-> article.url,
   urlHash |-> hashUrl(article.url), publishedAt |-> article.publishedAt,
   run |-> r]

\* processArticle: the insert; the unique index on url_hash may reject it.
InsertArticle(r) ==
  /\ run[r].pc = "insert"
  /\ LET article == Article(run[r])
         row == ArticleRow(nextId, article, run[r].tag.topicId, r)
     IN  IF ArticlesUrlHashIdx(articles, row)
           THEN /\ articles' = articles \cup {row}
                /\ nextId' = nextId + 1
                /\ run' = [run EXCEPT ![r] =
                             NextArticle(Logged([@ EXCEPT !.result.inserted = @ + 1],
                                                "ins", "none"))]
           ELSE /\ articles' = articles
                /\ nextId' = nextId
                /\ run' = [run EXCEPT ![r] = ItemCatch(@, "insert", "duplicate key")]
  /\ UNCHANGED <<env, topics, digests, faults, tagIn, tagOut, syn, batch, calls,
                 hashIn, hashOut, browse>>

\* An insert that the unique index guards after all.
InsertArticleRejecting(r) == InsertArticle(r)

\* processArticle: the insert into an articles table whose url_hash index is
\* not unique; the store accepts every row.
InsertArticleUnchecked(r) ==
  /\ run[r].pc = "insert"
  /\ LET article == Article(run[r])
         row == ArticleRow(nextId, article, run[r].tag.topicId, r)
     IN  /\ articles' = articles \cup {row}
         /\ nextId' = nextId + 1
         /\ run' = [run EXCEPT ![r] =
                      NextArticle(Logged([@ EXCEPT !.result.inserted = @ + 1],
                                         "ins", "none"))]
  /\ UNCHANGED <<env, topics, digests, faults, tagIn, tagOut, syn, batch, calls,
                 hashIn, hashOut, browse>>

\* A store call of processArticle (the findFirst or the insert) throws.
ArticleFails(r) ==
  /\ run[r].pc \in {"check", "insert"}
  /\ CanFail
  /\ faults' = faults + 1
  /\ run' = [run EXCEPT ![r] = ItemCatch(@, @.pc, "store error")]
  /\ UNCHANGED <<env, topics, articles, digests, nextId, tagIn, tagOut,
                 syn, batch, calls, hashIn, hashOut, browse>>

\* Run r is called when every run before it has returned.
AfterEarlier(r) == \A q \in Runs : q < r => run[q].pc = "done"

\* ------------------------------------------------- the cascade on its own
\* tagArticle is called with tagIn and returns; ai is what the collaborator
\* would do if called.
TagCall ==
  /\ tagOut = <<>>
  /\ \E ai \in AIOutcomes :
       LET t == tagArticle(tagIn.title, tagIn.description, tagIn.useAI,
                           env.OPENAI_API_KEY, ai)
       IN  tagOut' = << [result |-> t.result, aiCalls |-> t.aiCalls,
                         aiFailed |-> t.aiCalls > 0 /\ ~ai.ok,
                         ruleResult |-> tagArticleWithRules(tagIn.title,
                                                            tagIn.description)] >>
  /\ UNCHANGED <<env, topics, articles, digests, nextId, faults, run, tagIn, syn, batch,
                 calls, hashIn, hashOut, browse>>

\* ----------------------------------------------------- hashUrl on its own
\* hashUrl is called with each of the two URLs of hashIn and returns.
HashCall ==
  /\ hashOut = <<>>
  /\ hashOut' = <<hashUrl(UrlOf(hashIn[1])), hashUrl(UrlOf(hashIn[2]))>>
  /\ UNCHANGED <<env, topics, articles, digests, nextId, faults, run, tagIn, tagOut,
                 syn, batch, calls, hashIn, browse>>

\* ------------------------------------------------ digest synthesizer (digest.ts)
\* A date that is not truncated.
NoTruncation(t) == t

\* setHours(0, 0, 0, 0): the start of the day of instant t.
DayStart(t) == t - (t % DayTicks)

\* find of the digest for (daily, topicId, date): topicId ? eq : isNull.
FindDigest(rows, topicId, date) ==
  {d \in rows : d.type = "daily" /\ d.topicId = topicId /\ d.date = date}

\* uniqueIndex("digests_type_topic_date_idx"): the index accepts the new row.
\* Null values are distinct in a unique index of PostgreSQL, so rows of the
\* global scope (topic_id null) never conflict.
DigestsTypeTopicDateIdx(rows, row) ==
  \A d \in rows :
    ~(d.type = row.type /\ d.topicId # Null /\ d.topicId = row.topicId
        /\ d.date = row.date)

\* The where of the candidate query: the scope's articles published since.
RecentArticles(rows, topicId, since) ==
  {a \in rows : (topicId # Null => a.topicId = topicId) /\ a.publishedAt >= since}

\* orderBy desc(publishedAt), limit: the sequences (of article ids) the query
\* can return; rows of one publishedAt come in any order.
OrderedLimited(rows, limit) ==
  LET n == Cardinality(rows)
      all == {s \in [1..n -> rows] :
                /\ \A i, j \in 1..n : i # j => s[i] # s[j]
                /\ \A i, j \in 1..n : i < j => s[i].publishedAt >= s[j].publishedAt}
  IN  {[i \in 1..Min(limit, n) |-> s[i].id] : s \in all}

\* A caller of generateDailyDigest that is not in a call.
IdleSyn ==
  [pc |-> "idle", callNo |-> 0, topicId |-> Null, asOf |-> 0, date |-> 0,
   force |-> FALSE, maxArticles |-> 0, existing |-> <<>>, recent |-> <<>>,
   imageUrl |-> Null, ret |-> <<>>, error |-> Null, trace |-> <<>>]

\* generateDailyDigest({date, topicId, forceRegenerate, maxArticles}) is
\* called as call number n: the date is truncated and the lookup issued.
Called(n, topicId, asOf, force, maxArticles) ==
  [IdleSyn EXCEPT !.pc = "lookup", !.callNo = n, !.topicId = topicId,
                  !.asOf = asOf, !.date = DayStart(asOf), !.force = force,
                  !.maxArticles = maxArticles]

\* The call returns a GenerateDigestResult.
Returned(s, digestId, articleCount, isNew) ==
  [s EXCEPT !.pc = "returned",
            !.ret = << [none |-> FALSE, digestId |-> digestId,
                        articleCount |-> articleCount, isNew |-> isNew] >>]

\* A call that goes on to the summary with no candidate.
GoesOnEmpty(s) == [s EXCEPT !.pc = "summary"]

\* The call returns null.
ReturnedNull(s) ==
  [s EXCEPT !.pc = "returned",
            !.ret = << [none |-> TRUE, digestId |-> 0, articleCount |-> 0,
                        isNew |-> FALSE] >>]

\* The call throws.
Thrown(s, message) == [s EXCEPT !.pc = "thrown", !.error = message]

\* What the call has done so far is extended by event e.
Did(s, e) == [s EXCEPT !.trace = Append(@, e)]

\* The existing digest is looked up; a hit without forceRegenerate returns it
\* with articleCount 0.
Lookup(c) ==
  /\ syn[c].pc = "lookup"
  /\ LET found == FindDigest(digests, syn[c].topicId, syn[c].date)
     IN  \/ /\ found = {}
            /\ syn' = [syn EXCEPT ![c] = [Did(@, "lookup") EXCEPT !.pc = "select"]]
         \/ \E existingDigest \in found :
              syn' = [syn EXCEPT ![c] =
                        IF ~syn[c].force
                          THEN Returned(Did([@ EXCEPT !.existing = <<existingDigest>>],
                                            "lookup"),
                                        existingDigest.id, 0, FALSE)
                          ELSE [Did(@, "lookup") EXCEPT !.pc = "select",
                                                        !.existing = <<existingDigest>>]]
  /\ UNCHANGED <<env, topics, articles, digests, nextId, faults, run, tagIn, tagOut,
                 batch, calls, hashIn, hashOut, browse>>

\* The candidate articles are read; none makes the call return null.
Select(c) ==
  /\ syn[c].pc = "select"
  /\ LET since == syn[c].date - DayTicks
         rows == RecentArticles(articles, syn[c].topicId, since)
     IN  \E recentArticles \in OrderedLimited(rows, syn[c].maxArticles) :
           syn' = [syn EXCEPT ![c] =
                     IF Len(recentArticles) = 0
                       THEN ReturnedNull(Did(@, "select"))
                       ELSE [Did(@, "select") EXCEPT
                               !.recent = recentArticles,
                               !.pc = IF syn[c].topicId # Null THEN "topic"
                                                               ELSE "summary"]]
  /\ UNCHANGED <<env, topics, articles, digests, nextId, faults, run, tagIn, tagOut,
                 batch, calls, hashIn, hashOut, browse>>

\* The topic's name is read for a topic digest.
TopicName(c) ==
  /\ syn[c].pc = "topic"
  /\ syn' = [syn EXCEPT ![c] = [Did(@, "topic") EXCEPT !.pc = "summary"]]
  /\ UNCHANGED <<env, topics, articles, digests, nextId, faults, run, tagIn, tagOut,
                 batch, calls, hashIn, hashOut, browse>>

\* generateDigest: the summary's generateText returns.
Summary(c) ==
  /\ syn[c].pc = "summary"
  /\ syn' = [syn EXCEPT ![c] = [Did(@, "summary") EXCEPT !.pc = "title"]]
  /\ UNCHANGED <<env, topics, articles, digests, nextId, faults, run, tagIn, tagOut,
                 batch, calls, hashIn, hashOut, browse>>

\* generateDigest: the title's generateText returns.
Title(c) ==
  /\ syn[c].pc = "title"
  /\ syn' = [syn EXCEPT ![c] = [Did(@, "title") EXCEPT !.pc = "image"]]
  /\ UNCHANGED <<env, topics, articles, digests, nextId, faults, run, tagIn, tagOut,
                 batch, calls, hashIn, hashOut, browse>>

\* A generateDigest whose catch goes on to the insert with what it has.
GenerateFallsBack(c) ==
  /\ syn[c].pc \in {"summary", "title"}
  /\ CanFail
  /\ faults' = faults + 1
  /\ syn' = [syn EXCEPT ![c] = [Did(@, @.pc) EXCEPT !.pc = "insert"]]
  /\ UNCHANGED <<env, topics, articles, digests, nextId, run, tagIn, tagOut,
                 batch, calls, hashIn, hashOut, browse>>

\* generateDigest: the summary's or the title's generateText throws; the catch
\* throws Error("Failed to generate digest").
GenerateFails(c) ==
  /\ syn[c].pc \in {"summary", "title"}
  /\ CanFail
  /\ faults' = faults + 1
  /\ syn' = [syn EXCEPT ![c] = Thrown(Did(@, @.pc), "Failed to generate digest")]
  /\ UNCHANGED <<env, topics, articles, digests, nextId, run, tagIn, tagOut,
                 batch, calls, hashIn, hashOut, browse>>

\* A regeneration that keeps the existing digest.
KeepExisting(s) == "insert"

\* After generateDigest the existing digest is deleted when regenerating,
\* else the insert is next.
AfterGenerate(s) ==
  IF s.existing # <<>> /\ s.force THEN "delete" ELSE "insert"

\* A generateDigest whose image failure reaches the outer catch.
ImageFailurePropagates(c) ==
  /\ syn[c].pc = "image"
  /\ \/ /\ faults' = faults
        /\ syn' = [syn EXCEPT ![c] =
                     [Did(@, "image") EXCEPT !.imageUrl = "url",
                                             !.pc = AfterGenerate(syn[c])]]
     \/ /\ CanFail
        /\ faults' = faults + 1
        /\ syn' = [syn EXCEPT ![c] =
                     Thrown(Did(@, "image"), "Failed to generate digest")]
  /\ UNCHANGED <<env, topics, articles, digests, nextId, run, tagIn, tagOut,
                 batch, calls, hashIn, hashOut, browse>>

\* generateDigest: generateDigestImage returns a URL, or throws and the digest
\* goes on without an image.
Image(c) ==
  /\ syn[c].pc = "image"
  /\ \/ /\ faults' = faults
        /\ syn' = [syn EXCEPT ![c] =
                     [Did(@, "image") EXCEPT !.imageUrl = "url",
                                             !.pc = AfterGenerate(syn[c])]]
     \/ /\ CanFail
        /\ faults' = faults + 1
        /\ syn' = [syn EXCEPT ![c] =
                     [Did(@, "image") EXCEPT !.imageUrl = Null,
                                             !.pc = AfterGenerate(syn[c])]]
  /\ UNCHANGED <<env, topics, articles, digests, nextId, run, tagIn, tagOut,
                 batch, calls, hashIn, hashOut, browse>>

\* The existing digest is deleted by id.
DeleteExisting(c) ==
  /\ syn[c].pc = "delete"
  /\ digests' = {d \in digests : d.id # syn[c].existing[1].id}
  /\ syn' = [syn EXCEPT ![c] = [Did(@, "delete") EXCEPT !.pc = "insert"]]
  /\ UNCHANGED <<env, topics, articles, nextId, faults, run, tagIn, tagOut,
                 batch, calls, hashIn, hashOut, browse>>

\* The new digest is inserted and returned; the unique index may reject it.
InsertDigest(c) ==
  /\ syn[c].pc = "insert"
  /\ LET row == [id |-> nextId, type |-> "daily", topicId |-> syn[c].topicId,
                 date |-> syn[c].date, content |-> <<c, syn[c].callNo>>,
                 imageUrl |-> syn[c].imageUrl]
     IN  IF DigestsTypeTopicDateIdx(digests, row)
           THEN /\ digests' = digests \cup {row}
                /\ nextId' = nextId + 1
                /\ syn' = [syn EXCEPT ![c] =
                             Returned(Did(@, "insert"), row.id, Len(syn[c].recent), TRUE)]
           ELSE /\ digests' = digests
                /\ nextId' = nextId
                /\ syn' = [syn EXCEPT ![c] = Thrown(Did(@, "insert"), "duplicate key")]
  /\ UNCHANGED <<env, topics, articles, faults, run, tagIn, tagOut, batch, calls,
                 hashIn, hashOut, browse>>

\* A store call of generateDailyDigest throws.
SynthFails(c) ==
  /\ syn[c].pc \in {"lookup", "select", "topic", "delete", "insert"}
  /\ CanFail
  /\ faults' = faults + 1
  /\ syn' = [syn EXCEPT ![c] = Thrown(Did(@, @.pc), "store error")]
  /\ UNCHANGED <<env, topics, articles, digests, nextId, run, tagIn, tagOut,
                 batch, calls, hashIn, hashOut, browse>>


\* A direct caller calls generateDailyDigest with options it chooses.
StartSynth(c, max, options) ==
  /\ syn[c].pc \in {"idle", "returned", "thrown"}
  /\ calls < max
  /\ calls' = calls + 1
  /\ \E o \in options :
       syn' = [syn EXCEPT ![c] =
                 Called(calls + 1, o.topicId, o.asOf, o.force, o.maxArticles)]
  /\ UNCHANGED <<env, topics, articles, digests, nextId, faults, run, tagIn, tagOut,
                 batch, hashIn, hashOut, browse>>

\* No generateDailyDigest call is in progress.
NoCallActive == \A c \in Callers : syn[c].pc \in {"idle", "returned", "thrown"}

\* The direct callers take turns: a makes the first call, b the second, ...
Turn(c) == (c = "a") <=> (calls % 2 = 0)

\* ------------------------------------------------ batch coordinator (digest.ts)
\* The GenerateAllDigestsResult a batch starts with.
EmptyDigests == [global |-> <<>>, byTopic |-> <<>>, errors |-> <<>>]

IdleBatch ==
  [pc |-> "idle", asOf |-> 0, force |-> FALSE, allTopics |-> <<>>, idx |-> 0,
   result |-> EmptyDigests, attempts |-> <<>>, ended |-> <<>>]

\* What a generateDailyDigest call of the batch returned: a result, or
\* nothing for null.
Result(s) == IF s.ret[1].none THEN <<>> ELSE s.ret

\* db.query.topics.findMany(): the rows, here by sortOrder.
FindManyTopics(rows) ==
  LET present == {i \in 1..Len(getAllTopics) :
                    \E t \in rows : t.slug = getAllTopics[i].slug}
      Rank(i) == Cardinality({j \in present : j <= i})
  IN  [k \in 1..Cardinality(present) |->
         CHOOSE t \in rows :
           \E i \in present : Rank(i) = k /\ t.slug = getAllTopics[i].slug]

\* generateAllDailyDigests({date, forceRegenerate}) is called: result is
\* initialised and the global digest's generateDailyDigest is called.
StartBatch ==
  /\ batch.pc \in {"idle", "done", "thrown"}
  /\ calls < MaxBatches
  /\ calls' = calls + 1
  /\ \E asOf \in AsOfTimes, force \in BOOLEAN :
       /\ batch' = [IdleBatch EXCEPT !.pc = "global", !.asOf = asOf, !.force = force,
                                     !.attempts = <<Null>>]
       /\ syn' = [syn EXCEPT !["batch"] =
                    Called(0, Null, asOf, force, DefaultMaxArticles)]
  /\ UNCHANGED <<env, topics, articles, digests, nextId, faults, run, tagIn, tagOut,
                 hashIn, hashOut, browse>>

\* The global call returned (result.global is set) or threw (the catch pushes
\* `Global digest failed: ${message}`).
GlobalDone ==
  /\ batch.pc = "global"
  /\ syn["batch"].pc \in {"returned", "thrown"}
  /\ batch' =
       IF syn["batch"].pc = "returned"
         THEN [batch EXCEPT !.pc = "topics", !.ended = Append(@, "returned"),
                            !.result.global = Result(syn["batch"])]
         ELSE [batch EXCEPT !.pc = "topics", !.ended = Append(@, "thrown"),
                            !.result.errors =
                               Append(@, [scope |-> "Global",
                                          message |-> syn["batch"].error])]
  /\ UNCHANGED <<env, topics, articles, digests, nextId, faults, run, tagIn, tagOut,
                 syn, calls, hashIn, hashOut, browse>>

\* A loop that stops at the first error.
StopOnError(b) ==
  IF b.result.errors = <<>> /\ b.idx < Len(b.allTopics)
    THEN [b EXCEPT !.pc = "topic", !.idx = @ + 1,
                   !.attempts = Append(@, b.allTopics[b.idx + 1].id)]
    ELSE [b EXCEPT !.pc = "done"]

\* The for loop of generateAllDailyDigests calls generateDailyDigest for the
\* next topic, or the function returns result.
NextTopic(b) ==
  IF b.idx < Len(b.allTopics)
    THEN [b EXCEPT !.pc = "topic", !.idx = @ + 1,
                   !.attempts = Append(@, b.allTopics[b.idx + 1].id)]
    ELSE [b EXCEPT !.pc = "done"]

\* The generateDailyDigest call the batch is in after the step to b.
BatchCall(b, s) ==
  IF b.pc = "topic"
    THEN Called(b.idx, b.allTopics[b.idx].id, b.asOf, b.force, DefaultMaxArticles)
    ELSE s

\* db.query.topics.findMany() returns and the loop starts.
AllTopics ==
  /\ batch.pc = "topics"
  /\ LET b == NextTopic([batch EXCEPT !.allTopics = FindManyTopics(topics)])
     IN  /\ batch' = b
         /\ syn' = [syn EXCEPT !["batch"] = BatchCall(b, @)]
  /\ UNCHANGED <<env, topics, articles, digests, nextId, faults, run, tagIn, tagOut,
                 calls, hashIn, hashOut, browse>>

\* db.query.topics.findMany() throws: no try encloses it, so
\* generateAllDailyDigests throws.
AllTopicsFails ==
  /\ batch.pc = "topics"
  /\ CanFail
  /\ faults' = faults + 1
  /\ batch' = [batch EXCEPT !.pc = "thrown"]
  /\ UNCHANGED <<env, topics, articles, digests, nextId, run, tagIn, tagOut, syn,
                 calls, hashIn, hashOut, browse>>

\* A topic's call returned (a digest is pushed to byTopic) or threw (the catch
\* pushes `${topic.name} digest failed: ${message}`); the loop goes on.
TopicDone ==
  /\ batch.pc = "topic"
  /\ syn["batch"].pc \in {"returned", "thrown"}
  /\ LET topic == batch.allTopics[batch.idx]
         b == NextTopic(
                IF syn["batch"].pc = "returned"
                  THEN [batch EXCEPT !.ended = Append(@, "returned"),
                                     !.result.byTopic = @ \o Result(syn["batch"])]
                  ELSE [batch EXCEPT !.ended = Append(@, "thrown"),
                                     !.result.errors =
                                        Append(@, [scope |-> topic.name,
                                                   message |-> syn["batch"].error])])
     IN  /\ batch' = b
         /\ syn' = [syn EXCEPT !["batch"] = BatchCall(b, @)]
  /\ UNCHANGED <<env, topics, articles, digests, nextId, faults, run, tagIn, tagOut,
                 calls, hashIn, hashOut, browse>>

\* ------------------------------------------- article.browse (article.router.ts)
\* Date.prototype.toISOString of an instant, and new Date of that string; the
\* string keeps the milliseconds of the instant.
ToISOString(t) == <<"iso", t>>
ParseDate(s) == s[2]

\* A client that has not called article.browse.
IdleBrowse ==
  [pc |-> "idle", limit |-> 0, topicId |-> Null, cursor |-> Null, pages |-> <<>>]

\* lt(articles.publishedAt, new Date(cursor)).
BeforeCursor(a, cursor) == a.publishedAt < ParseDate(cursor)

\* The where clause of browse: the conditions of the cursor and of the topic,
\* when they are given.
BrowseWhere(rows, cursor, topicId) ==
  {a \in rows : /\ cursor # Null => BeforeCursor(a, cursor)
                /\ topicId # Null => a.topicId = topicId}

\* The browse query: what it can return for the input (limit, cursor,
\* topicId).  limit + 1 rows are read, newest first; when there are more than
\* limit the last one is popped and its publishedAt is the nextCursor.
browseQuery(rows, limit, cursor, topicId) ==
  LET published(id) == (CHOOSE a \in rows : a.id = id).publishedAt
  IN  {IF Len(items) > limit
         THEN [items |-> SubSeq(items, 1, limit),
               nextCursor |-> ToISOString(published(items[limit + 1]))]
         ELSE [items |-> items, nextCursor |-> Null] :
       items \in OrderedLimited(BrowseWhere(rows, cursor, topicId), limit + 1)}

\* The client makes its first request, without cursor.
StartBrowse ==
  /\ browse.pc = "idle"
  /\ \E limit \in 1..MaxLimit, topicId \in SynTopics :
       browse' = [IdleBrowse EXCEPT !.pc = "request", !.limit = limit,
                                    !.topicId = topicId]
  /\ UNCHANGED <<env, topics, articles, digests, nextId, faults, run, tagIn, tagOut,
                 syn, batch, calls, hashIn, hashOut>>

\* browse answers the request; the client keeps the page and asks for the next
\* one with the nextCursor it got, or stops when there is none.
Browse ==
  /\ browse.pc = "request"
  /\ \E response \in browseQuery(articles, browse.limit, browse.cursor, browse.topicId) :
       browse' = [browse EXCEPT
                    !.pages = Append(@, response.items),
                    !.cursor = response.nextCursor,
                    !.pc = IF response.nextCursor = Null THEN "done" ELSE "request"]
  /\ UNCHANGED <<env, topics, articles, digests, nextId, faults, run, tagIn, tagOut,
                 syn, batch, calls, hashIn, hashOut>>

\* ------------------------------------------------------------ specifications
\* Concurrent ingestion runs, their steps interleaved.
IngestNext ==
  \E r \in Runs :
    \/ StartRun(r)
    \/ SeedFind(r)
    \/ SeedInsert(r)
    \/ SetupFails(r)
    \/ Fetch(r, MaxRaceFeed)
    \/ FetchFails(r)
    \/ TopicMap(r)
    \/ CheckDuplicate(r)
    \/ Tag(r)
    \/ InsertArticle(r)
    \/ ArticleFails(r)

\* Concurrent ingestion on a store without the unique index on url_hash.
IngestNoIdxNext ==
  \E r \in Runs :
    \/ StartRun(r)
    \/ SeedFind(r)
    \/ SeedInsert(r)
    \/ SetupFails(r)
    \/ Fetch(r, MaxRaceFeed)
    \/ FetchFails(r)
    \/ TopicMap(r)
    \/ CheckDuplicate(r)
    \/ Tag(r)
    \/ InsertArticleUnchecked(r)
    \/ ArticleFails(r)

\* Ingestion runs one after the other.
IngestSeqNext ==
  \E r \in Runs :
    \/ AfterEarlier(r) /\ StartRun(r)
    \/ SeedFind(r)
    \/ SeedInsert(r)
    \/ SetupFails(r)
    \/ Fetch(r, MaxFeed)
    \/ FetchFails(r)
    \/ TopicMap(r)
    \/ CheckDuplicate(r)
    \/ Tag(r)
    \/ InsertArticle(r)
    \/ ArticleFails(r)

InitStore ==
  /\ topics = {}
  /\ articles = {}
  /\ digests = {}
  /\ nextId = 1
  /\ faults = 0

InitDigestIdle ==
  /\ syn = [c \in Callers |-> IdleSyn]
  /\ batch = IdleBatch
  /\ calls = 0

InitBrowseIdle == browse = IdleBrowse

InitHashIdle ==
  /\ hashIn = <<>>
  /\ hashOut = <<>>

InitIngest ==
  /\ InitStore
  /\ InitDigestIdle
  /\ InitBrowseIdle
  /\ InitHashIdle
  /\ env \in [OPENAI_API_KEY : BOOLEAN, GNEWS_API_KEY : BOOLEAN]
  /\ run = [r \in Runs |-> IdleRun]
  /\ tagIn = <<>>
  /\ tagOut = <<>>

\* Ingestion runs, concurrent, with faults.
SpecIngest == InitIngest /\ [][IngestNext]_vars

\* Ingestion runs, concurrent, with faults, without the unique index.
SpecIngestNoIdx == InitIngest /\ [][IngestNoIdxNext]_vars

\* Ingestion runs one after the other, with faults.
SpecIngestSeq == InitIngest /\ [][IngestSeqNext]_vars

TagNext == TagCall

InitTag ==
  /\ InitStore
  /\ InitDigestIdle
  /\ InitBrowseIdle
  /\ InitHashIdle
  /\ env \in [OPENAI_API_KEY : BOOLEAN, GNEWS_API_KEY : BOOLEAN]
  /\ run = [r \in Runs |-> IdleRun]
  /\ tagIn \in [title : Titles, description : Descriptions, useAI : BOOLEAN]
  /\ tagOut = <<>>

\* tagArticle on every text, flag and credential.
SpecTag == InitTag /\ [][TagNext]_vars

\* The topics table after seedTopics.
SeededTopics ==
  {[id |-> getAllTopics[i].slug, name |-> getAllTopics[i].name,
    slug |-> getAllTopics[i].slug, sortOrder |-> getAllTopics[i].sortOrder] :
     i \in 1..Len(getAllTopics)}

\* Article tables an ingestion run leaves: nothing; the neural-network and
\* the OpenAI item, both tagged ai-ml by rule; the company item tagged science
\* by the collaborator and the OpenAI item.
ArticleStores ==
  { {},
    {ArticleRow(1, Items[1], "ai-ml", 1), ArticleRow(2, Items[3], "ai-ml", 1)},
    {ArticleRow(1, Items[2], "science", 1), ArticleRow(2, Items[3], "ai-ml", 1)} }

\* The store after one ingestion run; no digest yet, nobody calling.
InitSynth ==
  /\ topics = SeededTopics
  /\ articles \in ArticleStores
  /\ digests = {}
  /\ nextId = Cardinality(articles) + 1
  /\ faults = 0
  /\ InitDigestIdle
  /\ InitBrowseIdle
  /\ InitHashIdle
  /\ env = [OPENAI_API_KEY |-> TRUE, GNEWS_API_KEY |-> TRUE]
  /\ run = [r \in Runs |-> IdleRun]
  /\ tagIn = <<>>
  /\ tagOut = <<>>

\* The options of concurrent calls: one day, either scope, with and without
\* forceRegenerate, maxArticles 1 or the default.
RaceOptions ==
  [topicId : SynTopics, asOf : {DayTicks}, force : BOOLEAN,
   maxArticles : {1, DefaultMaxArticles}]

\* The options of calls that follow each other: any instant, either scope,
\* with and without forceRegenerate, the default maxArticles.
SeqOptions ==
  [topicId : SynTopics, asOf : AsOfTimes, force : BOOLEAN,
   maxArticles : {DefaultMaxArticles}]

\* Direct generateDailyDigest calls, their steps interleaved.
SynthNext ==
  \E c \in Direct :
    \/ StartSynth(c, MaxRaceCalls, RaceOptions)
    \/ Lookup(c)
    \/ Select(c)
    \/ TopicName(c)
    \/ Summary(c)
    \/ Title(c)
    \/ GenerateFails(c)
    \/ Image(c)
    \/ DeleteExisting(c)
    \/ InsertDigest(c)
    \/ SynthFails(c)

\* Direct generateDailyDigest calls one after the other.
SynthSeqNext ==
  \E c \in Direct :
    \/ NoCallActive /\ Turn(c) /\ StartSynth(c, MaxCalls, SeqOptions)
    \/ Lookup(c)
    \/ Select(c)
    \/ TopicName(c)
    \/ Summary(c)
    \/ Title(c)
    \/ GenerateFails(c)
    \/ Image(c)
    \/ DeleteExisting(c)
    \/ InsertDigest(c)
    \/ SynthFails(c)

SpecSynth == InitSynth /\ [][SynthNext]_vars

SpecSynthSeq == InitSynth /\ [][SynthSeqNext]_vars

\* generateAllDailyDigests calls one after the other.
BatchNext ==
  \/ StartBatch
  \/ GlobalDone
  \/ AllTopics
  \/ AllTopicsFails
  \/ TopicDone
  \/ Lookup("batch")
  \/ Select("batch")
  \/ TopicName("batch")
  \/ Summary("batch")
  \/ Title("batch")
  \/ GenerateFails("batch")
  \/ Image("batch")
  \/ DeleteExisting("batch")
  \/ InsertDigest("batch")
  \/ SynthFails("batch")

SpecBatch == InitSynth /\ [][BatchNext]_vars

HashNext == HashCall

InitHash ==
  /\ InitStore
  /\ InitDigestIdle
  /\ InitBrowseIdle
  /\ env = [OPENAI_API_KEY |-> TRUE, GNEWS_API_KEY |-> TRUE]
  /\ run = [r \in Runs |-> IdleRun]
  /\ tagIn = <<>>
  /\ tagOut = <<>>
  /\ hashIn \in UrlShapes \X UrlShapes
  /\ hashOut = <<>>

\* hashUrl on every pair of URLs of the page.
SpecHash == InitHash /\ [][HashNext]_vars

\* An articles row, with the columns article.browse reads.
StoredArticle(id, topicId, publishedAt) ==
  [id |-> id, topicId |-> topicId, publishedAt |-> publishedAt]

\* The published instants of the stored articles: articles may share one.
BrowseStamps == {1, 2}

\* The articles tables a client pages through: up to MaxStored articles, each
\* of a topic or of none, published at one of BrowseStamps.
BrowseStores ==
  UNION {{{StoredArticle(i, f[i].topicId, f[i].publishedAt) : i \in 1..n} :
            f \in [1..n -> [topicId : SynTopics, publishedAt : BrowseStamps]]} :
         n \in 0..MaxStored}

BrowseNext == StartBrowse \/ Browse

InitBrowse ==
  /\ topics = SeededTopics
  /\ articles \in BrowseStores
  /\ digests = {}
  /\ nextId = Cardinality(articles) + 1
  /\ faults = 0
  /\ InitDigestIdle
  /\ InitHashIdle
  /\ browse = IdleBrowse
  /\ env = [OPENAI_API_KEY |-> TRUE, GNEWS_API_KEY |-> TRUE]
  /\ run = [r \in Runs |-> IdleRun]
  /\ tagIn = <<>>
  /\ tagOut = <<>>

\* A client pages through article.browse on an unchanging store.
SpecBrowse == InitBrowse /\ [][BrowseNext]_vars

\* ------------------------------------------------------- ingestion properties
\* The entries of a run's errors list that are about its k-th feed item.
ErrorsFor(rr, k) ==
  {e \in DOMAIN rr.result.errors : rr.result.errors[e].item = k}

\* The feed item of a run's k-th outcome.
ItemAt(rr, k) == Items[rr.feed[rr.hist[k].item]]

\* The items of a run that ended with outcome o.
Outcomes(rr, o) == {k \in DOMAIN rr.hist : rr.hist[k].outcome = o}

\* The k-th item of the run hit a store fault (a call to the store threw).
StoreFault(rr, k) ==
  \E e \in ErrorsFor(rr, k) : rr.result.errors[e].message = "store error"

\* C1: no two stored articles have the same urlHash, whatever the interleaving
\* of the runs' existence checks, taggings and inserts.
C1_UniqueFingerprint ==
  \A a, b \in articles : a.urlHash = b.urlHash => a = b

\* Two runs raced on one fingerprint: both passed the existence check, one
\* stored the article and the index rejected the other's insert.
C1_Witness ==
  \E r \in Runs : \E k \in DOMAIN run[r].hist :
    /\ run[r].hist[k].outcome = "err"
    /\ run[r].hist[k].stage = "insert"
    /\ \E e \in ErrorsFor(run[r], k) : run[r].result.errors[e].message = "duplicate key"
    /\ \E a \in articles : a.run # r /\ a.urlHash = hashUrl(ItemAt(run[r], k).url)

\* C2: when an earlier run has inserted an item and a later run gets the same
\* item (same URL) from the feed, the later run counts it in duplicates and in
\* nothing else: tagArticle is not called for it, it is not inserted, and no
\* stored article of that URL is the later run's.  (The one other outcome is
\* that the existence check itself throws.)  duplicates and inserted count
\* exactly the items with these outcomes.
C2_SecondRunCountsDuplicate ==
  \A r \in Runs :
    /\ run[r].result.duplicates = Cardinality(Outcomes(run[r], "dup"))
    /\ run[r].result.inserted = Cardinality(Outcomes(run[r], "ins"))
    /\ \A k \in DOMAIN run[r].hist :
         (\E a \in articles : a.run < r /\ a.url = ItemAt(run[r], k).url)
           => /\ \/ run[r].hist[k].outcome = "dup"
                 \/ run[r].hist[k].outcome = "err" /\ run[r].hist[k].stage = "check"
              /\ run[r].hist[k].tagCalls = 0
              /\ run[r].hist[k].aiCalls = 0
              /\ \A a \in articles : a.url = ItemAt(run[r], k).url => a.run < r

\* The second run has met an item the first run inserted and counted it.
C2_Witness ==
  /\ run[2].pc = "done"
  /\ run[2].result.duplicates = 1
  /\ run[2].result.inserted = 0
  /\ \E k \in DOMAIN run[2].hist :
       /\ run[2].hist[k].outcome = "dup"
       /\ \E a \in articles : a.run = 1 /\ a.url = ItemAt(run[2], k).url

\* The fingerprints a run met in the store when it was called.
HeldBefore(r) == {a.urlHash : a \in {b \in articles : b.run < r}}

\* The positions of a run's feed whose URL has fingerprint h.
Positions(rr, h) == {i \in DOMAIN rr.feed : hashUrl(Items[rr.feed[i]].url) = h}

\* C3: the two URLs of the scenario have one fingerprint; and when a run's
\* feed holds several items of one fingerprint that the store did not hold,
\* and no store call for them throws, the first of them is inserted, each
\* later one is counted in duplicates and none in errors, and the store holds
\* exactly one article of that fingerprint.
C3_OneStoredPerFingerprint ==
  /\ hashUrl("https://Site.com/a/?utm_source=x") = hashUrl("https://site.com/a")
  /\ \A r \in Runs : \A i, j \in DOMAIN run[r].hist :
       LET rr == run[r]
           h == hashUrl(ItemAt(rr, i).url)
       IN  ( /\ i < j
             /\ hashUrl(ItemAt(rr, j).url) = h
             /\ h \notin HeldBefore(r)
             /\ \A k \in Positions(rr, h) : ~StoreFault(rr, k) )
           => /\ i = CHOOSE m \in Positions(rr, h) : \A n \in Positions(rr, h) : m <= n
              /\ rr.hist[i].outcome = "ins"
              /\ rr.hist[j].outcome = "dup"
              /\ ErrorsFor(rr, i) = {} /\ ErrorsFor(rr, j) = {}
              /\ Cardinality({a \in articles : a.urlHash = h}) = 1
              /\ Cardinality({k \in Outcomes(rr, "ins") :
                                hashUrl(ItemAt(rr, k).url) = h}) = 1

\* A run got the scenario's two URLs in one response, stored the first and
\* counted the second as a duplicate.
C3_Witness ==
  \E r \in Runs :
    /\ run[r].pc = "done"
    /\ run[r].feed = <<1, 2>>
    /\ HeldBefore(r) = {}
    /\ run[r].result.inserted = 1
    /\ run[r].result.duplicates = 1
    /\ run[r].result.errors = <<>>
    /\ Cardinality(articles) = 1

\* The run got past the feed call and the topic map into its loop.
ReachedLoop(rr) ==
  \A e \in DOMAIN rr.result.errors : rr.result.errors[e].kind # "Fetch failed"

\* C4: an item whose processing throws gets exactly one entry of errors, which
\* carries its title, an item that does not throw gets none, and the run still
\* processes every item of the response: when it returns, each item has had
\* its outcome, in feed order.
C4_ItemFailureIsolated ==
  \A r \in Runs :
    LET rr == run[r] IN
    /\ \A k \in DOMAIN rr.hist :
         /\ rr.hist[k].item = k
         /\ Cardinality(ErrorsFor(rr, k)) = (IF rr.hist[k].outcome = "err" THEN 1 ELSE 0)
         /\ \A e \in ErrorsFor(rr, k) :
              /\ rr.result.errors[e].kind = "Failed to process"
              /\ rr.result.errors[e].title = ItemAt(rr, k).title
    /\ (rr.pc = "done" /\ ReachedLoop(rr)) => Len(rr.hist) = Len(rr.feed)

\* The first item of a run failed and the second was inserted all the same.
C4_Witness ==
  \E r \in Runs :
    /\ run[r].pc = "done"
    /\ Len(run[r].hist) = 2
    /\ run[r].hist[1].outcome = "err"
    /\ run[r].hist[2].outcome = "ins"
    /\ Len(run[r].result.errors) = 1

\* C5: a run whose feed call fails returns fetched = inserted = duplicates = 0
\* and one entry in errors, and has stored no article.
C5_FeedFailure ==
  \A r \in Runs :
    run[r].fetchFailed
      => /\ run[r].pc = "done"
         /\ run[r].result.fetched = 0
         /\ run[r].result.inserted = 0
         /\ run[r].result.duplicates = 0
         /\ Len(run[r].result.errors) = 1
         /\ run[r].result.errors[1].kind = "Fetch failed"
         /\ run[r].hist = <<>>
         /\ \A a \in articles : a.run # r

\* The feed call of one run failed while the store held another run's article.
C5_Witness ==
  \E r \in Runs : run[r].fetchFailed /\ env.GNEWS_API_KEY /\ articles # {}

\* C9: an item for which the text-classification collaborator failed gets no
\* entry of errors from that, and goes on to the insert with no topic
\* reference; it is stored and counted in inserted unless the insert itself
\* throws.
C9_AIFailureStillInserts ==
  \A r \in Runs :
    LET rr == run[r] IN
    /\ rr.result.inserted = Cardinality(Outcomes(rr, "ins"))
    /\ (rr.cur.aiFailed /\ rr.pc # "done")
         => rr.pc = "insert" /\ rr.tag.topicId = Null /\ ErrorsFor(rr, rr.idx) = {}
    /\ \A k \in DOMAIN rr.hist :
         rr.hist[k].aiFailed
           => \/ /\ rr.hist[k].outcome = "ins"
                 /\ ErrorsFor(rr, k) = {}
                 /\ \E a \in articles :
                      /\ a.run = r
                      /\ a.url = ItemAt(rr, k).url
                      /\ a.topicId = Null
              \/ /\ rr.hist[k].outcome = "err"
                 /\ rr.hist[k].stage = "insert"
                 /\ StoreFault(rr, k)

\* The collaborator failed for an item and the item was stored untagged.
C9_Witness ==
  \E r \in Runs : \E k \in DOMAIN run[r].hist :
    /\ run[r].hist[k].aiFailed
    /\ run[r].hist[k].outcome = "ins"
    /\ run[r].result.untagged >= 1
    /\ run[r].result.errors = <<>>

\* --------------------------------------------------------- cascade properties
\* C7: when the rule classifier's confidence is at least 0.33 (99 of 300),
\* tagArticle returns the rule result and calls no collaborator, whatever
\* useAI and OPENAI_API_KEY are.
C7_ConfidentRuleShortCircuits ==
  tagOut # <<>> =>
    LET ruleResult == tagArticleWithRules(tagIn.title, tagIn.description)
    IN  ruleResult.confidence >= 99
          => tagOut[1].result = ruleResult /\ tagOut[1].aiCalls = 0

\* One keyword hit (confidence 1/3), AI enabled and configured: no AI call.
C7_Witness ==
  /\ tagOut # <<>>
  /\ tagArticleWithRules(tagIn.title, tagIn.description).confidence = 100
  /\ tagIn.useAI
  /\ env.OPENAI_API_KEY
  /\ tagOut[1].aiCalls = 0
  /\ tagOut[1].result.source = "rule"

\* C8: when the collaborator was called and failed, tagArticle returns the
\* rule result, with provenance rule.
C8_AIFailureReturnsRuleResult ==
  (tagOut # <<>> /\ tagOut[1].aiFailed)
    => /\ tagOut[1].result = tagArticleWithRules(tagIn.title, tagIn.description)
       /\ tagOut[1].result.source = "rule"

\* What tagArticle returns when the collaborator was called and failed: no
\* topic, confidence 0, provenance ai.
AIFailureReturnsAIProvenance ==
  (tagOut # <<>> /\ tagOut[1].aiFailed)
    => /\ tagOut[1].result.topicSlug = Null
       /\ tagOut[1].result.confidence = 0
       /\ tagOut[1].result.source = "ai"

\* ---------------------------------------------------------- digest properties
\* C6: neither batch operation ever ends by throwing to its caller: every
\* fetchAndStoreArticles and every generateAllDailyDigests call that ends,
\* ends by returning its result object.
C6_BatchOperationsNeverThrow ==
  /\ \A r \in Runs : run[r].pc # "thrown"
  /\ batch.pc # "thrown"

\* Instants t and u fall on the same day.
SameDay(t, u) == t \div DayTicks = u \div DayTicks

\* The digests of a scope and of the day of an instant.
DigestsOfDay(topicId, t) ==
  {d \in digests : d.type = "daily" /\ d.topicId = topicId /\ SameDay(d.date, t)}

\* The call of caller c ended at the lookup, by returning a digest it found.
CacheHit(c) ==
  /\ syn[c].pc = "returned"
  /\ ~syn[c].force
  /\ syn[c].trace = <<"lookup">>
  /\ ~syn[c].ret[1].none

\* A call without forceRegenerate completes its lookup while the store holds
\* a digest of its scope and of the day of its date: it returns that digest's
\* id with articleCount 0 and isNew false, has done nothing but the lookup
\* (no summary, title or image call, no delete, no insert), and the digest
\* table is as it was.
CacheHitStep(c) ==
  ( /\ syn[c].pc = "lookup"
    /\ syn'[c].pc \notin {"lookup", "thrown"}
    /\ ~syn[c].force
    /\ DigestsOfDay(syn[c].topicId, syn[c].asOf) # {} )
  => /\ syn'[c].pc = "returned"
     /\ syn'[c].trace = <<"lookup">>
     /\ \E d \in DigestsOfDay(syn[c].topicId, syn[c].asOf) :
          syn'[c].ret = << [none |-> FALSE, digestId |-> d.id, articleCount |-> 0,
                            isNew |-> FALSE] >>
     /\ digests' = digests
     /\ nextId' = nextId

\* Two calls that returned a stored digest of one scope and day, both digests
\* still stored, returned the same id.
SameIdentity ==
  \A a, b \in Direct :
    ( /\ CacheHit(a) /\ CacheHit(b)
      /\ syn[a].topicId = syn[b].topicId
      /\ SameDay(syn[a].asOf, syn[b].asOf)
      /\ \A c \in {a, b} : \E d \in digests : d.id = syn[c].ret[1].digestId )
    => syn[a].ret[1].digestId = syn[b].ret[1].digestId

\* C10: generateDailyDigest without forceRegenerate, for a scope and day that
\* has a digest and for any instant of that day, returns the existing digest's
\* id with articleCount 0, calls no summarization, title or image
\* collaborator and neither inserts into nor deletes from the digest table;
\* two such calls return the same id.
C10_ExistingDigestReturned ==
  /\ [][\A c \in Direct : CacheHitStep(c)]_vars
  /\ []SameIdentity

\* Two calls, for two instants of one day, have both returned the id of the
\* digest a first call stored for that day.
C10_Witness ==
  /\ CacheHit("a") /\ CacheHit("b")
  /\ syn["a"].asOf # syn["b"].asOf
  /\ syn["a"].topicId = syn["b"].topicId
  /\ syn["a"].ret[1].articleCount = 0
  /\ syn["a"].ret[1].digestId = syn["b"].ret[1].digestId
  /\ \E d \in DigestsOfDay(syn["a"].topicId, syn["a"].asOf) :
       /\ d.id = syn["a"].ret[1].digestId
       /\ digests = {d}

\* The digests of the scope and date of caller c's call.
DigestsOfCall(rows, c) == FindDigest(rows, syn[c].topicId, DayStart(syn[c].asOf))

\* A call with forceRegenerate that found a digest and had candidates returns
\* from its insert: the table then holds exactly one digest of the scope and
\* date, it is the returned one, it has a new id and the content generated by
\* this call, and articleCount is the number of candidates used.
RegenerateStep(c) ==
  ( /\ syn[c].pc = "insert"
    /\ syn'[c].pc = "returned"
    /\ syn[c].force
    /\ syn[c].existing # <<>> )
  => /\ Len(syn[c].recent) > 0
     /\ syn'[c].ret = << [none |-> FALSE, digestId |-> nextId,
                          articleCount |-> Len(syn[c].recent), isNew |-> TRUE] >>
     /\ nextId # syn[c].existing[1].id
     /\ \A d \in digests : d.id # nextId
     /\ \E d \in digests' :
          /\ DigestsOfCall(digests', c) = {d}
          /\ d.id = nextId
          /\ d.content = <<c, syn[c].callNo>>
          /\ d.content # syn[c].existing[1].content

\* C11: after a successful generateDailyDigest call with forceRegenerate on a
\* scope and date that had a digest and at least one candidate, exactly one
\* digest exists for that (daily, scope, date), with the new content and a
\* new id, and articleCount is the number of candidates used.
C11_RegenerateLeavesOneDigest == [][\A c \in Direct : RegenerateStep(c)]_vars

\* A call with forceRegenerate has replaced the digest it found: the one
\* digest of its scope and date is the one it returned, and the one it found
\* is gone.
C11_Witness ==
  \E c \in Direct :
    /\ syn[c].pc = "returned"
    /\ syn[c].force
    /\ syn[c].existing # <<>>
    /\ "delete" \in {syn[c].trace[i] : i \in DOMAIN syn[c].trace}
    /\ syn[c].ret[1].isNew
    /\ syn[c].ret[1].articleCount = Len(syn[c].recent)
    /\ \A d \in digests : d.id # syn[c].existing[1].id
    /\ \E d \in digests :
         DigestsOfCall(digests, c) = {d} /\ d.id = syn[c].ret[1].digestId

\* The articles of the scope of caller c's call that were published in the 24
\* hours before its date, or later.
Candidates(c) ==
  {a \in articles :
     /\ syn[c].topicId # Null => a.topicId = syn[c].topicId
     /\ a.publishedAt >= DayStart(syn[c].asOf) - DayTicks}

\* The events e that caller c's call has done.
Done(s) == {s.trace[i] : i \in DOMAIN s.trace}

\* A call completes its candidate query while there is no candidate: it
\* returns null, has called no collaborator and written nothing, and the
\* digest table is as it was.
NoCandidateStep(c) ==
  ( /\ syn[c].pc = "select"
    /\ syn'[c].pc \notin {"select", "thrown"}
    /\ Candidates(c) = {} )
  => /\ syn'[c].pc = "returned"
     /\ syn'[c].ret[1].none
     /\ Done(syn'[c]) \cap {"summary", "title", "image", "delete", "insert"} = {}
     /\ digests' = digests
     /\ nextId' = nextId

\* C12: when generateDailyDigest finds no candidate article for the scope and
\* window it returns null, calls no summarization collaborator and leaves the
\* digest table as it was, with or without forceRegenerate and with or
\* without an existing digest.
C12_NoCandidatesNoDigest == [][\A c \in Direct : NoCandidateStep(c)]_vars

\* A call with forceRegenerate found no candidate while the table held a
\* digest (of another scope), returned null, and the table still holds that
\* digest and no other.
C12_Witness ==
  \E c \in Direct :
    /\ syn[c].pc = "returned"
    /\ syn[c].force
    /\ syn[c].ret[1].none
    /\ syn[c].trace = <<"lookup", "select">>
    /\ Candidates(c) = {}
    /\ articles # {}
    /\ Cardinality(digests) = 1

\* How many times a call has done event e.
Times(s, e) == Cardinality({i \in DOMAIN s.trace : s.trace[i] = e})

\* The summary's generateText fails in caller c's call: the call throws
\* "Failed to generate digest", it has called the summary once, it has
\* neither deleted nor inserted a digest, and the digest table is as it was.
SummaryFailsStep(c) ==
  ( /\ syn[c].pc = "summary"
    /\ faults' = faults + 1
    /\ syn'[c] # syn[c] )
  => /\ syn'[c].pc = "thrown"
     /\ syn'[c].error = "Failed to generate digest"
     /\ syn'[c].ret = <<>>
     /\ Times(syn'[c], "summary") = 1
     /\ Done(syn'[c]) \cap {"delete", "insert"} = {}
     /\ digests' = digests
     /\ nextId' = nextId

\* C13: when the summarization call fails inside generateDailyDigest, the
\* call ends by throwing to its caller, the summarization collaborator has
\* been called at most once in that call, and no digest has been inserted.
C13_SummaryFailurePropagates == [][\A c \in Direct : SummaryFailsStep(c)]_vars

\* A regenerating call threw at the summary, and the digest it had found is
\* still the one digest of its scope and date.
C13_Witness ==
  \E c \in Direct :
    /\ syn[c].pc = "thrown"
    /\ syn[c].error = "Failed to generate digest"
    /\ syn[c].trace[Len(syn[c].trace)] = "summary"
    /\ syn[c].force
    /\ syn[c].existing # <<>>
    /\ DigestsOfCall(digests, c) = {syn[c].existing[1]}

\* C14: in every reachable state, whatever the sequence or interleaving of
\* generateDailyDigest calls and of their forceRegenerate values, at most one
\* digest exists per (type, topicId, date), for the global scope (topicId
\* null) as for each topic.
C14_OneDigestPerScopeAndDate ==
  \A d, e \in digests :
    (d.type = e.type /\ d.topicId = e.topicId /\ d.date = e.date) => d = e

\* At most one digest exists per (type, topicId, date) for each topic: the
\* part of C14 the unique index enforces.
OneDigestPerTopicAndDate ==
  \A d, e \in digests :
    (d.type = e.type /\ d.topicId # Null /\ d.topicId = e.topicId /\ d.date = e.date)
      => d = e

\* ----------------------------------------------------------- batch properties
\* The targets of a batch that has listed the topics: the global scope, then
\* the topics.
Targets(b) == <<Null>> \o [i \in 1..Len(b.allTopics) |-> b.allTopics[i].id]

\* The name errors give the i-th target.
TargetName(b, i) == IF i = 1 THEN "Global" ELSE b.allTopics[i - 1].name

\* The attempts of the batch that ended by throwing.
FailedAttempts(b) == {i \in DOMAIN b.ended : b.ended[i] = "thrown"}

\* The batch has listed the topics.
Listed(b) == b.pc \in {"topic", "done"}

\* C15: generateAllDailyDigests attempts the global digest first and then
\* every topic of the store exactly once, whether or not the global attempt
\* or another topic's attempt failed; each failed target adds exactly one
\* error, naming it ("Global" or the topic's name), so there are as many
\* errors as failed targets.
C15_EveryTargetAttemptedOnce ==
  batch.pc # "idle" =>
    /\ Len(batch.attempts) >= 1
    /\ batch.attempts[1] = Null
    /\ Len(batch.ended) <= Len(batch.attempts)
    /\ Len(batch.ended) >= Len(batch.attempts) - 1
    /\ Listed(batch) =>
         /\ {batch.allTopics[i] : i \in DOMAIN batch.allTopics} = topics
         /\ Len(batch.allTopics) = Cardinality(topics)
         /\ batch.attempts = SubSeq(Targets(batch), 1, Len(batch.attempts))
    /\ batch.pc = "done" =>
         /\ batch.attempts = Targets(batch)
         /\ Len(batch.ended) = Len(batch.attempts)
    /\ Len(batch.result.errors) = Cardinality(FailedAttempts(batch))
    /\ \A i \in FailedAttempts(batch) :
         LET k == Cardinality({j \in FailedAttempts(batch) : j <= i})
         IN  batch.result.errors[k].scope = TargetName(batch, i)

\* A batch has returned after the attempt of a topic that is not the last
\* threw: every target was attempted, a later topic got its digest, and the
\* one error names the failed topic.
C15_Witness ==
  /\ batch.pc = "done"
  /\ batch.attempts = Targets(batch)
  /\ Len(batch.attempts) = Len(getAllTopics) + 1
  /\ \E i \in 2..(Len(batch.ended) - 1) :
       /\ FailedAttempts(batch) = {i}
       /\ batch.result.errors[1].scope = batch.allTopics[i - 1].name
  /\ Len(batch.result.errors) = 1
  /\ Len(batch.result.byTopic) >= 1

\* ------------------------------------------------------ fingerprint properties
\* Two URL shapes differ at most in letter case, in the trailing slash, in
\* the fragment and in the tracking parameter.
SamePage(f, g) == f.param = g.param

\* C16: hashUrl returns the same value for two URLs that differ only in
\* letter case, in one trailing slash, in the fragment or in the presence of a
\* tracking parameter of the drop-list, also when the URLs carry a parameter
\* that is not a tracking parameter.
C16_SamePageSameFingerprint ==
  (hashOut # <<>> /\ SamePage(hashIn[1], hashIn[2])) => hashOut[1] = hashOut[2]

\* What holds of hashUrl: the two URLs get the same value when neither
\* carries a parameter that is not a tracking parameter, and when they carry
\* one and agree on the trailing slash.
SameFingerprintUnlessSlashBeforeQuery ==
  ( /\ hashOut # <<>>
    /\ SamePage(hashIn[1], hashIn[2])
    /\ hashIn[1].param => hashIn[1].slash = hashIn[2].slash )
  => hashOut[1] = hashOut[2]

\* ------------------------------------------------------- classifier properties
\* The number of keyword phrases of the i-th topic that occur in the
\* lowercased title + " " + description.
MatchCount(title, description, i) ==
  LET text == ToLowerCase(Chars(title) \o <<" ">> \o Chars(description))
      keywords == TOPIC_KEYWORDS[i].keywords
  IN  Cardinality({k \in DOMAIN keywords : Includes(text, ToLowerCase(keywords[k]))})

\* The match counts of every text and topic.
MatchCounts ==
  [t \in Titles |-> [d \in Descriptions |->
     [i \in DOMAIN TOPIC_KEYWORDS |-> MatchCount(t, d, i)]]]

\* The position of a topic in the taxonomy.
TopicIndex(slug) == CHOOSE i \in DOMAIN TOPIC_KEYWORDS : TOPIC_KEYWORDS[i].slug = slug

\* C17: the confidence the rule classifier returns is min(matchCount / 3, 1)
\* for the match count of the topic it selected: exactly 1 from three matches
\* on, and at least 0.33 from one match on.
C17_ConfidenceFromMatchCount ==
  (tagOut # <<>> /\ tagOut[1].ruleResult.topicSlug # Null) =>
    LET r == tagOut[1].ruleResult
        n == MatchCounts[tagIn.title][tagIn.description][TopicIndex(r.topicSlug)]
    IN  /\ n >= 1
        /\ 3 * r.confidence = IF n >= 3 THEN 3 * 300 ELSE n * 300
        /\ n >= 3 => r.confidence = 300
        /\ r.confidence >= 99

\* The classifier has returned a topic with more than three matches, at
\* confidence 1.
C17_Witness ==
  /\ tagOut # <<>>
  /\ tagOut[1].ruleResult.topicSlug # Null
  /\ MatchCounts[tagIn.title][tagIn.description]
       [TopicIndex(tagOut[1].ruleResult.topicSlug)] > 3
  /\ tagOut[1].ruleResult.confidence = 300

\* The match counts of the topics for the text of tagIn.
CountsIn == MatchCounts[tagIn.title][tagIn.description]

\* The greatest match count of a topic for the text of tagIn.
MaxCount == CHOOSE n \in {CountsIn[i] : i \in DOMAIN CountsIn} :
              \A i \in DOMAIN CountsIn : CountsIn[i] <= n

\* The first topic, in taxonomy order, that has the greatest match count.
FirstBest == CHOOSE i \in DOMAIN CountsIn :
               /\ CountsIn[i] = MaxCount
               /\ \A j \in DOMAIN CountsIn : CountsIn[j] = MaxCount => i <= j

\* C18: the rule classifier returns the topic with the greatest match count,
\* the first in taxonomy order (ai-ml, startups, programming, cybersecurity,
\* big-tech, crypto, hardware, science) when several topics share it; with no
\* match at all it returns no topic and confidence 0; the provenance is
\* always rule.
C18_FirstGreatestMatchCount ==
  /\ [i \in DOMAIN TOPIC_KEYWORDS |-> TOPIC_KEYWORDS[i].slug]
       = <<"ai-ml", "startups", "programming", "cybersecurity", "big-tech",
           "crypto", "hardware", "science">>
  /\ tagOut # <<>> =>
       LET r == tagOut[1].ruleResult
       IN  /\ r.source = "rule"
           /\ MaxCount = 0 => (r.topicSlug = Null /\ r.confidence = 0)
           /\ MaxCount > 0 =>
                /\ r.topicSlug = TOPIC_KEYWORDS[FirstBest].slug
                /\ \A i \in DOMAIN CountsIn :
                     CountsIn[i] <= CountsIn[TopicIndex(r.topicSlug)]
                /\ \A i \in DOMAIN CountsIn :
                     i < TopicIndex(r.topicSlug)
                       => CountsIn[i] < CountsIn[TopicIndex(r.topicSlug)]

\* The classifier has returned the earlier of two topics that share the
\* greatest match count, and the topic it returned is not the first of the
\* taxonomy.
C18_Witness ==
  /\ tagOut # <<>>
  /\ MaxCount > 0
  /\ \E i, j \in DOMAIN CountsIn :
       /\ 1 < i /\ i < j
       /\ CountsIn[i] = MaxCount /\ CountsIn[j] = MaxCount
       /\ tagOut[1].ruleResult.topicSlug = TOPIC_KEYWORDS[i].slug

\* tagArticle has returned for the title "New neural network model beats
\* GPT-4 benchmark" with no description.
NeuralScenario ==
  /\ tagOut # <<>>
  /\ tagIn.title = "New neural network model beats GPT-4 benchmark"
  /\ tagIn.description = ""

\* C19 as stated: for that title the rule classifier matches at least 3
\* keywords of ai-ml and returns ai-ml with confidence 1.0, and tagArticle
\* returns that rule result without an AI call.
C19_NeuralScenarioSaturates ==
  NeuralScenario =>
    /\ CountsIn[TopicIndex("ai-ml")] >= 3
    /\ tagOut[1].ruleResult.topicSlug = "ai-ml"
    /\ tagOut[1].ruleResult.confidence = 300
    /\ tagOut[1].result = tagOut[1].ruleResult
    /\ tagOut[1].aiCalls = 0

\* C19, amended: for that title the rule classifier matches exactly 2
\* keywords of ai-ml ("neural network" and "gpt-4") and returns ai-ml with
\* confidence 2/3, and tagArticle returns that rule result without an AI call.
C19_NeuralScenarioTwoMatches ==
  NeuralScenario =>
    /\ CountsIn[TopicIndex("ai-ml")] = 2
    /\ tagOut[1].ruleResult.matchedKeywords
         = << <<"n","e","u","r","a","l"," ","n","e","t","w","o","r","k">>,
              <<"g","p","t","-","4">> >>
    /\ tagOut[1].ruleResult.topicSlug = "ai-ml"
    /\ tagOut[1].ruleResult.confidence = 200
    /\ tagOut[1].result = tagOut[1].ruleResult
    /\ tagOut[1].result.source = "rule"
    /\ tagOut[1].aiCalls = 0

\* tagArticle has returned for that title with the AI fallback enabled and
\* configured, and made no AI call.
C19_Witness ==
  /\ NeuralScenario
  /\ tagIn.useAI
  /\ env.OPENAI_API_KEY
  /\ tagOut[1].aiCalls = 0
  /\ tagOut[1].result.topicSlug = "ai-ml"

\* C20: when the rule confidence is below 0.33 and the caller passed useAI =
\* false or OPENAI_API_KEY is not set, tagArticle returns the rule result as
\* it is, with provenance rule, and does not call the collaborator.
C20_LowConfidenceWithoutAI ==
  ( /\ tagOut # <<>>
    /\ tagOut[1].ruleResult.confidence < 99
    /\ ~tagIn.useAI \/ ~env.OPENAI_API_KEY )
  => /\ tagOut[1].result = tagOut[1].ruleResult
     /\ tagOut[1].result.source = "rule"
     /\ tagOut[1].aiCalls = 0

\* tagArticle has returned the rule result, no topic at confidence 0, for a
\* text without a keyword, the caller having left the AI fallback enabled
\* while OPENAI_API_KEY is not set.
C20_Witness ==
  /\ tagOut # <<>>
  /\ MaxCount = 0
  /\ tagIn.useAI
  /\ ~env.OPENAI_API_KEY
  /\ tagOut[1].result = tagOut[1].ruleResult
  /\ tagOut[1].result.topicSlug = Null
  /\ tagOut[1].result.confidence = 0
  /\ tagOut[1].aiCalls = 0

\* ------------------------------------------------------------------ C21
\* The rule classifier finds no keyword in the item run r is about to tag.
NoKeywordHit(rr) ==
  tagArticleWithRules(Article(rr).title, Article(rr).description).confidence = 0

\* processArticle of run r gets the answer of tagArticle for an item without
\* keyword hit, with AI enabled and configured and the collaborator answering:
\* one collaborator call was made, the result is the collaborator's topic and
\* confidence with provenance ai, and the item is counted in taggedByAI when
\* the topic is not null and in untagged otherwise.
AIFallbackStep(r) ==
  LET before == run[r]
      after == run'[r]
  IN  (/\ before.pc = "tag"
       /\ after.pc = "insert"
       /\ NoKeywordHit(before)
       /\ before.useAI
       /\ env.OPENAI_API_KEY
       /\ after.cur.ai.ok)
        => /\ after.cur.aiCalls = before.cur.aiCalls + 1
           /\ after.cur.aiCalls = 1
           /\ after.tag.topicSlug = after.cur.ai.topicSlug
           /\ after.tag.confidence = after.cur.ai.confidence
           /\ after.tag.source = "ai"
           /\ after.result.taggedByRule = before.result.taggedByRule
           /\ IF after.tag.topicSlug # Null
                THEN /\ after.result.taggedByAI = before.result.taggedByAI + 1
                     /\ after.result.untagged = before.result.untagged
                ELSE /\ after.result.taggedByAI = before.result.taggedByAI
                     /\ after.result.untagged = before.result.untagged + 1

\* C21: when the rule classifier finds no keyword hit (confidence 0), AI
\* fallback is enabled and configured and the collaborator answers
\* successfully, tagArticle calls the collaborator exactly once and returns
\* the collaborator's topic and confidence with provenance ai; ingestion counts
\* the item in taggedByAI when the topic is not null, in untagged otherwise.
C21_AIFallbackUsesCollaborator == [][\A r \in Runs : AIFallbackStep(r)]_vars

\* An item without keyword hit that the collaborator answered for: counted in
\* taggedByAI with the collaborator's topic, or in untagged with none.
C21_Witness ==
  \E r \in Runs :
    /\ run[r].pc = "insert"
    /\ NoKeywordHit(run[r])
    /\ run[r].useAI
    /\ run[r].cur.ai.ok
    /\ run[r].cur.aiCalls = 1
    /\ run[r].tag.source = "ai"
    /\ \/ run[r].tag.topicSlug = "science" /\ run[r].result.taggedByAI = 1
       \/ run[r].tag.topicSlug = Null /\ run[r].result.untagged = 1

\* ------------------------------------------------------------------ C22
\* C22: in generateDailyDigest with forceRegenerate and an existing digest of
\* the scope and date, the delete of the existing digest happens before
\* regeneration starts: before the summarization collaborator is invoked and
\* before the new row is inserted.
C22_DeleteBeforeRegeneration ==
  \A c \in Callers :
    LET s == syn[c] IN
    (s.force /\ s.existing # <<>>)
      => \A i \in DOMAIN s.trace :
           s.trace[i] \in {"summary", "insert"}
             => \E j \in 1..(i - 1) : s.trace[j] = "delete"

\* ------------------------------------------------------------------ C23
\* The articles the call of c passes to generateDigest, newest first.
CandidateRows(s) ==
  [i \in DOMAIN s.recent |-> CHOOSE a \in articles : a.id = s.recent[i]]

\* The candidates of s are of its scope, newest first and at most maxArticles.
ScopedOrderedCapped(s) ==
  LET rows == CandidateRows(s) IN
  /\ \A i \in DOMAIN rows : s.topicId # Null => rows[i].topicId = s.topicId
  /\ \A i, j \in DOMAIN rows : i < j => rows[i].publishedAt >= rows[j].publishedAt
  /\ Len(rows) <= s.maxArticles

\* C23: every candidate generateDailyDigest passes to the summarization
\* collaborator belongs to the requested scope and was published inside the
\* 24 hours that end at the date key (date - 24h <= publishedAt <= date); the
\* candidates are ordered newest first and are at most maxArticles.
C23_CandidatesInWindow ==
  \A c \in Callers :
    LET s == syn[c]
        rows == CandidateRows(s)
    IN  /\ ScopedOrderedCapped(s)
        /\ \A i \in DOMAIN rows :
             /\ s.date - DayTicks <= rows[i].publishedAt
             /\ rows[i].publishedAt <= s.date

\* The part of C23 the query enforces: scope, lower bound, order and cap.
CandidatesSinceWindowStart ==
  \A c \in Callers :
    /\ ScopedOrderedCapped(syn[c])
    /\ \A i \in DOMAIN syn[c].recent :
         syn[c].date - DayTicks <= CandidateRows(syn[c])[i].publishedAt

\* ------------------------------------------------------------------ C24
\* The image step of the call s is in failed: generateDigestImage threw.
ImageFailed(s) == "image" \in Done(s) /\ s.imageUrl = Null

\* The image fault of a call is the only fault of it: the call goes on to the
\* delete or the insert and does not throw what generateDigest throws.
ImageFailureSwallowed ==
  \A c \in Direct :
    LET s == syn[c] IN
    ("image" \in Done(s) /\ s.pc = "thrown") => s.error = "store error"

\* A call whose image step failed ends its insert, no store call throwing: it
\* returns the id of the row it inserted with isNew and the number of
\* candidates, and that row is the one digest of its scope and date and has
\* no image.
ImageFailureStep(c) ==
  ( /\ syn[c].pc = "insert"
    /\ ImageFailed(syn[c])
    /\ syn'[c] # syn[c]
    /\ faults' = faults )
  => /\ syn'[c].pc = "returned"
     /\ syn'[c].ret = << [none |-> FALSE, digestId |-> nextId,
                          articleCount |-> Len(syn[c].recent), isNew |-> TRUE] >>
     /\ \E d \in digests' :
          /\ DigestsOfCall(digests', c) = {d}
          /\ d.id = nextId
          /\ d.imageUrl = Null
          /\ d \notin digests

\* C24: when the summary and the title succeed and the image collaborator
\* fails, generateDailyDigest still succeeds: the failure is not propagated,
\* exactly one digest of the scope and date is stored, without image, and the
\* result reports it as new.
C24_ImageFailureSwallowed ==
  /\ [][\A c \in Direct : ImageFailureStep(c)]_vars
  /\ []ImageFailureSwallowed

\* A call has returned a new digest after its image step failed; the digest
\* is stored without image.
C24_Witness ==
  \E c \in Direct :
    /\ syn[c].pc = "returned"
    /\ ImageFailed(syn[c])
    /\ {"summary", "title", "insert"} \subseteq Done(syn[c])
    /\ syn[c].ret[1].isNew
    /\ \E d \in digests :
         /\ DigestsOfCall(digests, c) = {d}
         /\ d.id = syn[c].ret[1].digestId
         /\ d.imageUrl = Null

\* ------------------------------------------------------------------ C25
\* The topic table holds exactly one row per slug of the taxonomy and no other.
Seeded(rows) ==
  /\ \A i \in DOMAIN getAllTopics :
       Cardinality({t \in rows : t.slug = getAllTopics[i].slug}) = 1
  /\ Cardinality(rows) = Len(getAllTopics)

\* seedTopics of the run rr has returned and the run is going on.
SeedingReturned(rr) == rr.pc \in {"fetch", "topicMap", "check", "tag", "insert"}

\* After a seedTopics that returned, the table holds one topic per slug.
SeededAfterRun == \A r \in Runs : SeedingReturned(run[r]) => Seeded(topics)

\* On a seeded table no step changes the topics and no seedTopics gets to its
\* insert.
SeededStep ==
  Seeded(topics)
    => /\ topics' = topics
       /\ \A r \in Runs : run'[r].pc # "seedInsert"

\* C25: seedTopics is idempotent. After one complete seeding run the topic
\* table holds exactly one topic per slug of the taxonomy, and any further run
\* that follows inserts no topic and leaves the topic table unchanged.
C25_SeedTopicsIdempotent ==
  /\ []SeededAfterRun
  /\ [][SeededStep]_vars

\* A second run has gone through seedTopics on the table the first run
\* seeded.
C25_Witness ==
  /\ run[1].pc = "done"
  /\ run[1].result.fetched > 0
  /\ SeedingReturned(run[2])
  /\ Seeded(topics)

\* ------------------------------------------------------------------ C26
\* The entries of a run's errors that report an insert the store rejected as
\* duplicate.
DuplicateKeyErrors(rr) ==
  {e \in DOMAIN rr.result.errors : rr.result.errors[e].message = "duplicate key"}

\* C26: a uniqueness violation is never surfaced as an application error.
\* Under any interleaving of concurrent fetchAndStoreArticles runs and of
\* concurrent generateDailyDigest calls, no run's errors list and no call's
\* thrown error comes from a rejected duplicate insert (article url_hash,
\* digest (type, topicId, date), or topic slug).
C26_NoUniquenessViolationSurfaced ==
  /\ \A r \in Runs : DuplicateKeyErrors(run[r]) = {}
  /\ \A c \in Callers : syn[c].error # "duplicate key"

\* ------------------------------------------------------------------ C27
\* Without the unique index, the insert of a run that passed the existence
\* check is accepted whatever the table holds: the row is stored and counted
\* in inserted, and nothing is added to errors.
UncheckedInsertStep(r) ==
  ( /\ run[r].pc = "insert"
    /\ run'[r] # run[r]
    /\ faults' = faults )
  => /\ Cardinality(articles') = Cardinality(articles) + 1
     /\ \E a \in articles' \ articles :
          a.run = r /\ a.urlHash = hashUrl(Article(run[r]).url)
     /\ run'[r].result.inserted = run[r].result.inserted + 1
     /\ run'[r].result.errors = run[r].result.errors

\* C27: with the unique constraint on url_hash removed, two concurrent runs
\* that both pass the existence check for one fingerprint both insert, and
\* two stored articles have one fingerprint (the state C27_Witness, reached by
\* such an interleaving).
C27_RaceInsertsTwiceWithoutIndex == [][\A r \in Runs : UncheckedInsertStep(r)]_vars

\* Two runs raced on one fingerprint: neither counted a duplicate, both
\* inserted, and the table holds two articles of that fingerprint.
C27_Witness ==
  \E a, b \in articles :
    /\ a # b
    /\ a.urlHash = b.urlHash
    /\ a.run # b.run
    /\ \A r \in {a.run, b.run} :
         /\ run[r].result.duplicates = 0
         /\ run[r].result.inserted = 1
         /\ run[r].result.errors = <<>>

\* ------------------------------------------------------------------ C28
\* The run rr has returned after its loop: seedTopics, the feed call and the
\* topic findMany succeeded.
LoopEnded(rr) == rr.pc = "done" /\ ReachedLoop(rr)

\* C28: at the end of every run in which the feed call, the seeding and the
\* topic lookup succeeded, fetched = inserted + duplicates + the number of
\* entries of errors; an errored item is counted neither in inserted nor in
\* duplicates: the three counts are those of the items that were inserted,
\* found stored, and failed.
C28_FetchedIsSumOfOutcomes ==
  \A r \in Runs :
    LET rr == run[r] IN
    LoopEnded(rr)
      => /\ rr.result.fetched =
              rr.result.inserted + rr.result.duplicates + Len(rr.result.errors)
         /\ rr.result.fetched = Len(rr.hist)
         /\ rr.result.inserted = Cardinality(Outcomes(rr, "ins"))
         /\ rr.result.duplicates = Cardinality(Outcomes(rr, "dup"))
         /\ Len(rr.result.errors) = Cardinality(Outcomes(rr, "err"))

\* A run of two items has returned with one item in errors and the other
\* inserted.
C28_Witness ==
  \E r \in Runs :
    /\ LoopEnded(run[r])
    /\ run[r].result.fetched = 2
    /\ Len(run[r].result.errors) = 1
    /\ run[r].result.inserted = 1
    /\ run[r].result.duplicates = 0

\* ------------------------------------------------------------------ C29
\* C29: taggedByRule + taggedByAI + untagged = inserted at every point of a
\* run and in the statistics it returns: an item is counted in a tagging
\* counter if and only if it was inserted, also when the store rejects the
\* insert.  Stated here for the statistics of a run that has returned.
C29_TaggedSumIsInserted ==
  \A r \in Runs :
    run[r].pc = "done"
      => run[r].result.taggedByRule + run[r].result.taggedByAI
           + run[r].result.untagged = run[r].result.inserted

\* ------------------------------------------------------------------ C30
\* The number of times the pages the client got hold the article of that id.
Occurrences(id) ==
  Cardinality({pi \in (DOMAIN browse.pages) \X (1..(MaxLimit + 1)) :
                 /\ pi[2] \in DOMAIN browse.pages[pi[1]]
                 /\ browse.pages[pi[1]][pi[2]] = id})

\* The stored articles of the topic the client asked for (all when none).
Browsed == {a \in articles : browse.topicId # Null => a.topicId = browse.topicId}

\* C30: paging through article.browse with each response's nextCursor, on an
\* unchanging store, until nextCursor is absent, returns every stored article
\* of the topic filter exactly once: none is skipped and none returned twice,
\* articles that share a publishedAt included.
C30_BrowseReturnsEachOnce ==
  browse.pc = "done" => \A a \in Browsed : Occurrences(a.id) = 1

\* No article is returned twice, and none outside the topic filter.
BrowseNeverRepeats ==
  /\ \A a \in Browsed : Occurrences(a.id) <= 1
  /\ \A a \in articles \ Browsed : Occurrences(a.id) = 0
====
